---- MODULE Spec2Model ----
(***************************************************************************)
(* KYC onboarding pipeline (andrewnich777/kyc-onboarding-agent).           *)
(*                                                                         *)
(* The model follows src/pipeline.py (KYCPipeline.run / finalize and the   *)
(* stage helpers), src/utilities/risk_scoring.py,                          *)
(* src/utilities/investigation_planner.py,                                 *)
(* src/generators/recommendation_engine.py and                             *)
(* src/agents/kyc_synthesis.py.                                            *)
(*                                                                         *)
(* Values that change representation between the in-memory objects and    *)
(* the JSON files are tagged records [t, v]: t is the Python type (an Enum *)
(* class, "datetime", "str", "NoneType") and v the text json.dumps would   *)
(* write for it.  All enums of src/models.py are str-Enums, so a Python    *)
(* comparison of a member with a string compares v only.                   *)
(***************************************************************************)
EXTENDS Integers, Sequences, FiniteSets, TLC

\* ------------------------------------------------------------------------
\* Bounds of the model
\* ------------------------------------------------------------------------
\* entry-point invocations (run / finalize processes) per behaviour
MaxInvocations == 2
\* collaborators (agents, utilities) that are down, i.e. raise on every call
MaxOutage == 1
\* risk factors in a preliminary assessment, and in a list of extra factors
MaxFactors == 2
\* largest total score the level function is applied to
MaxScore == 80
MaxOwners == 2
MaxListed == 1
MaxPattern == 2
MaxRecords == 12
MaxMatches == 2
MaxPerClass == 7
\* cases in a case-signature log
MaxCases == 4
\* notes an officer records in one interactive review
MaxNotes == 1

\* ------------------------------------------------------------------------
\* Tagged values
\* ------------------------------------------------------------------------
None == [t |-> "NoneType", v |-> "null"]
Str(s) == [t |-> "str", v |-> s]
Enum(cls, s) == [t |-> cls, v |-> s]
DateTime(s) == [t |-> "datetime", v |-> s]

IsNone(x) == x.t = "NoneType"

\* members of the str-Enums of models.py, by value
DispositionStatus ==
    {"CLEAR", "POTENTIAL_MATCH", "CONFIRMED_MATCH", "FALSE_POSITIVE", "PENDING_REVIEW"}
PEPLevel ==
    {"NOT_PEP", "FOREIGN_PEP", "DOMESTIC_PEP", "HIO", "PEP_FAMILY", "PEP_ASSOCIATE"}
AdverseMediaLevel == {"CLEAR", "LOW_CONCERN", "MATERIAL_CONCERN", "HIGH_RISK"}
RiskLevel == {"LOW", "MEDIUM", "HIGH", "CRITICAL"}
OnboardingDecision == {"APPROVE", "CONDITIONAL", "ESCALATE", "DECLINE"}
EvidenceClass == {"V", "S", "I", "U"}
Confidence == {"HIGH", "MEDIUM", "LOW"}
ClientType == {"individual", "business"}

EnumMembers(cls) ==
    CASE cls = "DispositionStatus" -> DispositionStatus
      [] cls = "PEPLevel" -> PEPLevel
      [] cls = "AdverseMediaLevel" -> AdverseMediaLevel
      [] cls = "RiskLevel" -> RiskLevel
      [] cls = "OnboardingDecision" -> OnboardingDecision
      [] cls = "EvidenceClass" -> EvidenceClass
      [] cls = "Confidence" -> Confidence
      [] cls = "ClientType" -> ClientType

\* ------------------------------------------------------------------------
\* Reference data (the entries the modelled clients use)
\* ------------------------------------------------------------------------
FATF_GREY_LIST == {"Nigeria", "Syria"}
FATF_BLACK_LIST == {"Iran", "Myanmar", "North Korea"}
OFAC_SANCTIONED_COUNTRIES == {"Cuba", "Iran", "North Korea", "Syria", "Russia", "Myanmar"}
HIGH_RISK_INDUSTRIES == {"import_export", "casino_gaming", "real_estate"}
OFFSHORE_JURISDICTIONS == {"Cayman Islands", "Panama"}

\* ------------------------------------------------------------------------
\* Clients
\* ------------------------------------------------------------------------
Owner(name, pct) == [full_name |-> name, ownership_percentage |-> pct]

IndividualLow ==
    [client_type |-> "individual", full_name |-> "Sarah Thompson",
     pep_self_declaration |-> FALSE, pep_details |-> "",
     citizenship |-> "Canada", third_party_determination |-> FALSE]

IndividualCritical ==
    [client_type |-> "individual", full_name |-> "Maria Petrova",
     pep_self_declaration |-> TRUE, pep_details |-> "foreign",
     citizenship |-> "Iran", third_party_determination |-> FALSE]

BusinessNoOwners ==
    [client_type |-> "business", legal_name |-> "Quiet Holdings",
     industry |-> "real_estate", countries_of_operation |-> <<"Canada">>,
     us_nexus |-> FALSE, third_party_determination |-> FALSE,
     beneficial_owners |-> << >>]

BusinessTwoOwners ==
    [client_type |-> "business", legal_name |-> "Northern Maple",
     industry |-> "import_export", countries_of_operation |-> <<"Canada", "Iran">>,
     us_nexus |-> TRUE, third_party_determination |-> FALSE,
     beneficial_owners |-> <<Owner("Viktor", 51), Owner("Anna", 49)>>]

Clients == {IndividualLow, IndividualCritical, BusinessNoOwners, BusinessTwoOwners}

IsIndividual(client) == client.client_type = "individual"
IsBusiness(client) == client.client_type = "business"
ClientName(client) == IF IsIndividual(client) THEN client.full_name ELSE client.legal_name

\* ------------------------------------------------------------------------
\* Risk scoring engine
\* ------------------------------------------------------------------------
RiskFactor(factor, points, category, source) ==
    [factor |-> factor, points |-> points, category |-> category, source |-> source]

RECURSIVE SumPoints(_)
SumPoints(factors) ==
    IF factors = << >> THEN 0
    ELSE Head(factors).points + SumPoints(Tail(factors))

\* breakpoints that exclude their own value
_score_to_risk_level_strict(score) ==
    IF score < 15 THEN "LOW"
    ELSE IF score < 35 THEN "MEDIUM"
    ELSE IF score < 60 THEN "HIGH"
    ELSE "CRITICAL"

_score_to_risk_level(score) ==
    IF score <= 15 THEN "LOW"
    ELSE IF score <= 35 THEN "MEDIUM"
    ELSE IF score <= 60 THEN "HIGH"
    ELSE "CRITICAL"

HistoryEntry(stage, score, level) == [stage |-> stage, score |-> score, level |-> level]

RiskAssessment(factors, is_preliminary, history) ==
    [cls |-> "RiskAssessment",
     total_score |-> SumPoints(factors),
     risk_level |-> Enum("RiskLevel", _score_to_risk_level(SumPoints(factors))),
     risk_factors |-> factors,
     is_preliminary |-> is_preliminary,
     score_history |-> history]

IntakeHistory(factors) ==
    <<HistoryEntry("intake", SumPoints(factors), _score_to_risk_level(SumPoints(factors)))>>

IndividualFactors(client) ==
    (IF client.pep_self_declaration
     THEN IF client.pep_details = "foreign"
          THEN <<RiskFactor("Foreign PEP (self-declared)", 40, "pep", "client_intake")>>
          ELSE IF client.pep_details = "hio"
          THEN <<RiskFactor("Head of International Organization", 30, "pep", "client_intake")>>
          ELSE <<RiskFactor("Domestic PEP (self-declared)", 25, "pep", "client_intake")>>
     ELSE << >>)
    \o (IF client.citizenship \in FATF_BLACK_LIST
        THEN <<RiskFactor("Citizenship (FATF black list)", 30, "citizenship", "client_intake")>>
        ELSE IF client.citizenship \in FATF_GREY_LIST
        THEN <<RiskFactor("Citizenship (FATF grey list)", 15, "citizenship", "client_intake")>>
        ELSE IF client.citizenship \in OFAC_SANCTIONED_COUNTRIES
        THEN <<RiskFactor("Citizenship (OFAC sanctioned)", 20, "citizenship", "client_intake")>>
        ELSE << >>)
    \o (IF client.third_party_determination
        THEN <<RiskFactor("Third-party account determination", 15, "third_party", "client_intake")>>
        ELSE << >>)

calculate_individual_risk_score(client) ==
    RiskAssessment(IndividualFactors(client), TRUE, IntakeHistory(IndividualFactors(client)))

RECURSIVE CountryFactors(_)
CountryFactors(countries) ==
    IF countries = << >> THEN << >>
    ELSE LET country == Head(countries)
             f == IF country \in {"Canada", "canada", "CA", "ca"} THEN << >>
                  ELSE IF country \in FATF_BLACK_LIST
                  THEN <<RiskFactor("Operations (FATF black list)", 25, "jurisdiction", "client_intake")>>
                  ELSE IF country \in FATF_GREY_LIST
                  THEN <<RiskFactor("Operations (FATF grey list)", 12, "jurisdiction", "client_intake")>>
                  ELSE IF country \in OFAC_SANCTIONED_COUNTRIES
                  THEN <<RiskFactor("Operations (OFAC sanctioned)", 15, "jurisdiction", "client_intake")>>
                  ELSE IF country \in OFFSHORE_JURISDICTIONS
                  THEN <<RiskFactor("Operations (offshore jurisdiction)", 8, "jurisdiction", "client_intake")>>
                  ELSE << >>
         IN f \o CountryFactors(Tail(countries))

BusinessFactors(client) ==
    (IF client.industry \in HIGH_RISK_INDUSTRIES
     THEN <<RiskFactor("High-risk industry", 15, "industry", "client_intake")>>
     ELSE << >>)
    \o CountryFactors(client.countries_of_operation)
    \o (IF Len(client.beneficial_owners) > 4
        THEN <<RiskFactor("Complex ownership", 10, "ownership_complexity", "client_intake")>>
        ELSE IF Len(client.beneficial_owners) = 0
        THEN <<RiskFactor("No beneficial owners declared", 15, "ownership_complexity", "client_intake")>>
        ELSE << >>)
    \o (IF client.us_nexus
        THEN <<RiskFactor("US nexus", 10, "us_nexus", "client_intake")>>
        ELSE << >>)
    \o (IF client.third_party_determination
        THEN <<RiskFactor("Third-party account determination", 15, "third_party", "client_intake")>>
        ELSE << >>)

calculate_business_risk_score(client) ==
    RiskAssessment(BusinessFactors(client), TRUE, IntakeHistory(BusinessFactors(client)))

\* maximum of a non-empty set of integers
MaxOf(S) == CHOOSE m \in S : \A n \in S : n <= m

\* a revision that counts the highest related-party score in full
revise_risk_score_full_weight(preliminary, ubo_scores, synthesis_factors) ==
    LET max_ubo_score == IF DOMAIN ubo_scores = {} THEN 0
                         ELSE MaxOf({ubo_scores[n] : n \in DOMAIN ubo_scores})
        factors == preliminary.risk_factors
                   \o <<RiskFactor("UBO cascade", max_ubo_score, "ubo_cascade", "synthesis")>>
                   \o synthesis_factors
    IN RiskAssessment(factors, FALSE,
           Append(preliminary.score_history,
                  HistoryEntry("synthesis_revision", SumPoints(factors),
                               _score_to_risk_level(SumPoints(factors)))))

\* ubo_scores is a function owner name -> score (a dict), synthesis_factors a sequence
revise_risk_score(preliminary, ubo_scores, synthesis_factors) ==
    LET max_ubo_score == IF DOMAIN ubo_scores = {} THEN 0
                         ELSE MaxOf({ubo_scores[n] : n \in DOMAIN ubo_scores})
        cascade == IF DOMAIN ubo_scores # {} /\ max_ubo_score > 0
                   THEN <<RiskFactor("UBO cascade", max_ubo_score \div 2, "ubo_cascade", "synthesis")>>
                   ELSE << >>
        factors == preliminary.risk_factors \o cascade \o synthesis_factors
    IN RiskAssessment(factors, FALSE,
           Append(preliminary.score_history,
                  HistoryEntry("synthesis_revision", SumPoints(factors),
                               _score_to_risk_level(SumPoints(factors)))))

\* ------------------------------------------------------------------------
\* Investigation planner
\* ------------------------------------------------------------------------
\* a planner that names only the first declared owner
OwnerNamesFirstOnly(owners) ==
    IF owners = << >> THEN << >> ELSE <<Head(owners).full_name>>

RECURSIVE OwnerNames(_)
OwnerNames(owners) ==
    IF owners = << >> THEN << >>
    ELSE <<Head(owners).full_name>> \o OwnerNames(Tail(owners))

_generate_client_id(client) ==
    IF IsIndividual(client) THEN client.full_name ELSE client.legal_name

build_investigation_plan(client) ==
    [cls |-> "InvestigationPlan",
     client_type |-> Enum("ClientType", client.client_type),
     client_id |-> _generate_client_id(client),
     agents_to_run |->
        IF IsIndividual(client)
        THEN <<"IndividualSanctions", "PEPDetection", "IndividualAdverseMedia", "JurisdictionRisk">>
        ELSE <<"EntityVerification", "EntitySanctions", "BusinessAdverseMedia", "JurisdictionRisk">>,
     utilities_to_run |->
        IF IsIndividual(client)
        THEN <<"id_verification", "suitability", "individual_fatca_crs",
               "edd_requirements", "compliance_actions">>
        ELSE <<"id_verification", "suitability", "entity_fatca_crs",
               "business_risk_assessment", "edd_requirements", "compliance_actions">>,
     ubo_cascade_needed |-> IsBusiness(client) /\ client.beneficial_owners # << >>,
     ubo_names |-> IF IsBusiness(client) THEN OwnerNames(client.beneficial_owners) ELSE << >>,
     preliminary_risk |->
        IF IsIndividual(client) THEN calculate_individual_risk_score(client)
        ELSE calculate_business_risk_score(client)]

\* ------------------------------------------------------------------------
\* Regulation detector
\* ------------------------------------------------------------------------
CRS_NON_PARTICIPATING == {"United States"}

\* str.lower() on the country names the modelled applicants use
Lower(s) ==
    CASE s = "Canada" -> "canada"
      [] s = "United States" -> "united states"
      [] s = "Nigeria" -> "nigeria"
      [] s = "Iran" -> "iran"
      [] OTHER -> s

IsUnitedStates(country) == Lower(country) \in {"united states", "us", "usa"}
IsCanada(country) == Lower(country) \in {"canada", "ca"}

\* if name not in regulations: regulations.append(name)
AppendIfAbsent(regulations, name) ==
    IF \E k \in 1..Len(regulations) : regulations[k] = name THEN regulations
    ELSE Append(regulations, name)

\* an absent Optional[str] is "", falsy like None in every test made on it;
\* an absent address is << >>, a given one <<[country |-> c]>>
_check_individual_us_indicia(client) ==
    \/ client.citizenship # "" /\ IsUnitedStates(client.citizenship)
    \/ client.country_of_birth # "" /\ IsUnitedStates(client.country_of_birth)
    \/ client.us_person
    \/ client.address # << >> /\ IsUnitedStates(client.address[1].country)
    \/ \E k \in 1..Len(client.tax_residencies) : IsUnitedStates(client.tax_residencies[k])
    \/ client.us_tin # ""

\* for country in countries_to_check: if country and (country in grey or black)
AnyFatfListed(countries_to_check) ==
    \E k \in 1..Len(countries_to_check) :
        /\ countries_to_check[k] # ""
        /\ \/ countries_to_check[k] \in FATF_GREY_LIST
           \/ countries_to_check[k] \in FATF_BLACK_LIST

CrsApplicable(countries) ==
    SelectSeq(SelectSeq(countries, LAMBDA c : ~IsCanada(c)),
              LAMBDA c : c \notin CRS_NON_PARTICIPATING)

\* all_countries.extend(ubo.tax_residencies) for each owner
RECURSIVE OwnerTaxResidencies(_)
OwnerTaxResidencies(owners) ==
    IF owners = << >> THEN << >>
    ELSE Head(owners).tax_residencies \o OwnerTaxResidencies(Tail(owners))

\* the countries each owner adds to countries_to_check
RECURSIVE OwnerCountriesToCheck(_)
OwnerCountriesToCheck(owners) ==
    IF owners = << >> THEN << >>
    ELSE (IF Head(owners).citizenship # "" THEN <<Head(owners).citizenship>> ELSE << >>)
         \o (IF Head(owners).country_of_residence # ""
             THEN <<Head(owners).country_of_residence>> ELSE << >>)
         \o OwnerCountriesToCheck(Tail(owners))

IndividualRegulations(client) ==
    LET base == <<"FINTRAC", "CIRO">>
        with_us_person ==
            IF client.us_person
            THEN AppendIfAbsent(AppendIfAbsent(base, "OFAC"), "FATCA") ELSE base
        with_indicia ==
            IF _check_individual_us_indicia(client)
            THEN AppendIfAbsent(with_us_person, "FATCA") ELSE with_us_person
        with_crs ==
            IF CrsApplicable(client.tax_residencies) # << >>
            THEN Append(with_indicia, "CRS") ELSE with_indicia
        countries_to_check ==
            <<client.citizenship, client.country_of_residence, client.country_of_birth>>
            \o client.tax_residencies
    IN  IF AnyFatfListed(countries_to_check) THEN AppendIfAbsent(with_crs, "EDD")
        ELSE with_crs

BusinessRegulations(client) ==
    LET base == <<"FINTRAC", "CIRO">>
        with_us_nexus ==
            IF client.us_nexus
            THEN AppendIfAbsent(AppendIfAbsent(base, "OFAC"), "FATCA") ELSE base
        with_owners ==
            IF \E k \in 1..Len(client.beneficial_owners) : client.beneficial_owners[k].us_person
            THEN AppendIfAbsent(AppendIfAbsent(with_us_nexus, "FATCA"), "OFAC")
            ELSE with_us_nexus
        all_countries ==
            client.countries_of_operation \o OwnerTaxResidencies(client.beneficial_owners)
        with_crs ==
            IF CrsApplicable(all_countries) # << >>
            THEN AppendIfAbsent(with_owners, "CRS") ELSE with_owners
        countries_to_check ==
            client.countries_of_operation
            \o (IF client.incorporation_jurisdiction # ""
                THEN <<client.incorporation_jurisdiction>> ELSE << >>)
            \o OwnerCountriesToCheck(client.beneficial_owners)
    IN  IF AnyFatfListed(countries_to_check) THEN AppendIfAbsent(with_crs, "EDD")
        ELSE with_crs

detect_applicable_regulations(client) ==
    IF IsIndividual(client) THEN IndividualRegulations(client)
    ELSE IF IsBusiness(client) THEN BusinessRegulations(client)
    ELSE <<"FINTRAC", "CIRO">>

\* ------------------------------------------------------------------------
\* Pydantic models, model_dump, json.dumps(default=str) and validation
\* ------------------------------------------------------------------------
\* A model object is a record with a field cls naming its class; model_dump()
\* (python mode) gives the same fields without cls, nested models dumped too,
\* enum members and datetimes kept as they are.

\* declared type of the fields that are not plain str / int / bool / dict
FieldType(cls, k) ==
    CASE cls = "EvidenceRecord" /\ k = "entity_context" -> "Optional[str]"
      [] cls = "EvidenceRecord" /\ k = "evidence_level" -> "EvidenceClass"
      [] cls = "EvidenceRecord" /\ k = "disposition" -> "DispositionStatus"
      [] cls = "EvidenceRecord" /\ k = "confidence" -> "Confidence"
      [] cls = "EvidenceRecord" /\ k = "timestamp" -> "datetime"
      [] cls = "SanctionsResult" /\ k = "disposition" -> "DispositionStatus"
      [] cls = "PEPClassification" /\ k = "detected_level" -> "PEPLevel"
      [] cls = "AdverseMediaResult" /\ k = "overall_level" -> "AdverseMediaLevel"
      [] cls = "JurisdictionRiskResult" /\ k = "overall_jurisdiction_risk" -> "RiskLevel"
      [] cls = "RiskAssessment" /\ k = "risk_level" -> "RiskLevel"
      [] cls = "InvestigationPlan" /\ k = "client_type" -> "ClientType"
      [] cls = "InvestigationPlan" /\ k = "preliminary_risk" -> "RiskAssessment"
      [] cls = "KYCSynthesisOutput" /\ k = "recommended_decision" -> "OnboardingDecision"
      [] cls = "KYCSynthesisOutput" /\ k = "revised_risk_assessment" -> "Optional[RiskAssessment]"
      [] k = "evidence_records" -> "list[EvidenceRecord]"
      [] OTHER -> "plain"

EnumClasses ==
    {"DispositionStatus", "PEPLevel", "AdverseMediaLevel", "RiskLevel",
     "OnboardingDecision", "EvidenceClass", "Confidence", "ClientType"}

\* fields holding a tagged scalar (enum member, datetime, str or None)
ScalarFields ==
    {"entity_context", "evidence_level", "disposition", "confidence", "timestamp",
     "detected_level", "overall_level", "overall_jurisdiction_risk", "risk_level",
     "client_type", "recommended_decision"}
\* fields holding a nested model (or its dump), and lists of them
NestedFields == {"preliminary_risk"}
OptionalNestedFields == {"revised_risk_assessment"}
NestedListFields == {"evidence_records"}

WithoutCls(r) == [k \in DOMAIN r \ {"cls"} |-> r[k]]

RECURSIVE model_dump(_)
RECURSIVE DumpSeq(_)
DumpSeq(objs) ==
    IF objs = << >> THEN << >> ELSE <<model_dump(Head(objs))>> \o DumpSeq(Tail(objs))
model_dump(obj) ==
    [k \in DOMAIN obj \ {"cls"} |->
        IF k \in NestedListFields THEN DumpSeq(obj[k])
        ELSE IF k \in NestedFields THEN model_dump(obj[k])
        ELSE IF k \in OptionalNestedFields
             THEN (IF "t" \in DOMAIN obj[k] THEN obj[k] ELSE model_dump(obj[k]))
        ELSE obj[k]]

\* json.dumps(..., default=str) followed by json.loads: a str-Enum member is
\* written as its value, a datetime through str(), None as null
\* (JsonScalarRepr: what a dump writing the type of the value would keep)
JsonScalarRepr(x) == IF IsNone(x) THEN None ELSE Str("<" \o x.t \o ">")
JsonScalar(x) == IF IsNone(x) THEN None ELSE Str(x.v)

RECURSIVE JsonDict(_)
RECURSIVE JsonList(_)
JsonList(ds) ==
    IF ds = << >> THEN << >> ELSE <<JsonDict(Head(ds))>> \o JsonList(Tail(ds))
JsonDict(d) ==
    [k \in DOMAIN d |->
        IF k \in ScalarFields THEN JsonScalar(d[k])
        ELSE IF k \in NestedListFields THEN JsonList(d[k])
        ELSE IF k \in NestedFields THEN JsonDict(d[k])
        ELSE IF k \in OptionalNestedFields
             THEN (IF "t" \in DOMAIN d[k] THEN JsonScalar(d[k]) ELSE JsonDict(d[k]))
        ELSE d[k]]

\* pydantic validation of one scalar against its declared type
ScalarValid(type, x) ==
    CASE type \in EnumClasses -> x.t \in {type, "str"} /\ x.v \in EnumMembers(type)
      [] type = "datetime" -> x.t \in {"datetime", "str"}
      [] type = "Optional[str]" -> x.t \in {"str", "NoneType"}
      [] OTHER -> FALSE
ScalarCoerce(type, x) ==
    CASE type \in EnumClasses -> Enum(type, x.v)
      [] type = "datetime" -> DateTime(x.v)
      [] OTHER -> x

\* keys a model class requires (fields without a default)
RequiredKeys(cls) ==
    CASE cls = "EvidenceRecord" -> {"evidence_id", "source_name", "entity_screened"}
      [] cls = "SanctionsResult" -> {"entity_screened"}
      [] cls = "PEPClassification" -> {"entity_screened"}
      [] cls = "AdverseMediaResult" -> {"entity_screened"}
      [] cls = "EntityVerification" -> {"entity_name"}
      [] cls = "InvestigationPlan" -> {"client_type", "client_id"}
      [] OTHER -> {}

RECURSIVE CanValidate(_, _)
RECURSIVE AllValid(_, _)
AllValid(cls, ds) ==
    IF ds = << >> THEN TRUE
    ELSE CanValidate(cls, Head(ds)) /\ AllValid(cls, Tail(ds))
CanValidate(cls, d) ==
    /\ RequiredKeys(cls) \subseteq DOMAIN d
    /\ \A k \in DOMAIN d :
          IF k \in ScalarFields THEN ScalarValid(FieldType(cls, k), d[k])
          ELSE IF k \in NestedListFields THEN AllValid("EvidenceRecord", d[k])
          ELSE IF k \in NestedFields THEN CanValidate("RiskAssessment", d[k])
          ELSE IF k \in OptionalNestedFields
               THEN ("t" \in DOMAIN d[k] \/ CanValidate("RiskAssessment", d[k]))
          ELSE TRUE

\* Model(**d) for a d that validates
RECURSIVE Construct(_, _)
RECURSIVE ConstructSeq(_, _)
ConstructSeq(cls, ds) ==
    IF ds = << >> THEN << >>
    ELSE <<Construct(cls, Head(ds))>> \o ConstructSeq(cls, Tail(ds))
Construct(cls, d) ==
    [k \in DOMAIN d \cup {"cls"} |->
        IF k = "cls" THEN cls
        ELSE IF k \in ScalarFields THEN ScalarCoerce(FieldType(cls, k), d[k])
        ELSE IF k \in NestedListFields THEN ConstructSeq("EvidenceRecord", d[k])
        ELSE IF k \in NestedFields THEN Construct("RiskAssessment", d[k])
        ELSE IF k \in OptionalNestedFields
             THEN (IF "t" \in DOMAIN d[k] THEN d[k] ELSE Construct("RiskAssessment", d[k]))
        ELSE d[k]]

\* ------------------------------------------------------------------------
\* The world of one behaviour: the client, what the screenings find about
\* each subject, and which collaborators are down
\* ------------------------------------------------------------------------
Profile(sanctions, pep, media) == [sanctions |-> sanctions, pep |-> pep, media |-> media]
Clear == Profile("CLEAR", "NOT_PEP", "CLEAR")
Potential == Profile("POTENTIAL_MATCH", "NOT_PEP", "CLEAR")
Confirmed == Profile("CONFIRMED_MATCH", "NOT_PEP", "CLEAR")
Exposed == Profile("CLEAR", "FOREIGN_PEP", "MATERIAL_CONCERN")

ClientProfiles(client) ==
    IF IsBusiness(client) /\ client.beneficial_owners # << >>
    THEN {Clear, Potential}
    ELSE {Clear, Potential, Confirmed, Exposed}
\* the first declared owner may be a confirmed match, the others may be exposed
OwnerProfiles(n) == IF n = 1 THEN {Clear, Confirmed} ELSE {Clear, Exposed}

Subjects(client) ==
    {ClientName(client)} \cup
    (IF IsBusiness(client)
     THEN {client.beneficial_owners[n].full_name : n \in DOMAIN client.beneficial_owners}
     ELSE {})

Findings(client) ==
    {f \in [Subjects(client) -> {Clear, Potential, Confirmed, Exposed}] :
        /\ f[ClientName(client)] \in ClientProfiles(client)
        /\ IsBusiness(client) =>
              \A n \in DOMAIN client.beneficial_owners :
                 f[client.beneficial_owners[n].full_name] \in OwnerProfiles(n)}

\* the findings under which collaborator outages are explored: every subject
\* carries the gravest profile it can have
AdverseFindings(client) ==
    CHOOSE f \in Findings(client) :
        /\ f[ClientName(client)] \in {Confirmed, Potential}
        /\ f[ClientName(client)] = Potential => Confirmed \notin ClientProfiles(client)
        /\ IsBusiness(client) =>
              \A n \in DOMAIN client.beneficial_owners :
                 f[client.beneficial_owners[n].full_name] # Clear

AgentNames ==
    {"IndividualSanctions", "PEPDetection", "IndividualAdverseMedia", "EntityVerification",
     "EntitySanctions", "BusinessAdverseMedia", "JurisdictionRisk"}
UtilityNames ==
    {"id_verification", "suitability", "individual_fatca_crs", "entity_fatca_crs",
     "edd_requirements", "compliance_actions", "business_risk_assessment",
     "document_requirements"}

\* the collaborators a run for this client calls
Collaborators(client) ==
    LET plan == build_investigation_plan(client)
    IN {plan.agents_to_run[i] : i \in DOMAIN plan.agents_to_run}
       \cup {plan.utilities_to_run[i] : i \in DOMAIN plan.utilities_to_run}
       \cup (IF plan.ubo_cascade_needed
             THEN {"IndividualSanctions", "PEPDetection", "IndividualAdverseMedia"}
             ELSE {})

\* at most MaxOutage collaborators are down, no two agents and no two utilities
Outages(client) ==
    {o \in SUBSET Collaborators(client) :
        /\ Cardinality(o) <= MaxOutage
        /\ Cardinality(o \cap AgentNames) <= 1
        /\ Cardinality(o \cap UtilityNames) <= 1}

\* outages are explored for the individual and the business client whose plans
\* call the most collaborators
OutageClients == {IndividualCritical, BusinessTwoOwners}

Worlds ==
    UNION {{[client |-> c, findings |-> f, outage |-> {}] : f \in Findings(c)} :
              c \in Clients}
    \cup UNION {{[client |-> c, findings |-> AdverseFindings(c), outage |-> o] :
                    o \in Outages(c)} : c \in OutageClients}

\* ------------------------------------------------------------------------
\* Investigative agents (external collaborators): the typed result an agent
\* returns for a subject, with the evidence records its parser builds
\* ------------------------------------------------------------------------
Now == "2026-11-06 10:00:00"

EvidenceRecord(id, source, entity, level, disposition, confidence) ==
    [cls |-> "EvidenceRecord", evidence_id |-> id, source_type |-> "agent",
     source_name |-> source, entity_screened |-> entity, entity_context |-> None,
     evidence_level |-> Enum("EvidenceClass", level),
     disposition |-> Enum("DispositionStatus", disposition),
     confidence |-> Enum("Confidence", confidence),
     timestamp |-> DateTime(Now)]

\* an evidence_id is the pair <<prefix, suffix>> of the text prefix_suffix;
\* one finding gives the record <prefix>_0, none gives <prefix>_clear
FindingRecords(found, id_found, id_clear, source, entity) ==
    IF found
    THEN <<EvidenceRecord(id_found, source, entity, "S", "PENDING_REVIEW", "MEDIUM")>>
    ELSE <<EvidenceRecord(id_clear, source, entity, "S", "CLEAR", "HIGH")>>

SanctionsResult(source, id_found, id_clear, entity, disposition) ==
    [cls |-> "SanctionsResult", entity_screened |-> entity,
     disposition |-> Enum("DispositionStatus", disposition),
     evidence_records |->
        FindingRecords(disposition # "CLEAR", id_found, id_clear, source, entity)]

PEPClassification(entity, level) ==
    [cls |-> "PEPClassification", entity_screened |-> entity,
     detected_level |-> Enum("PEPLevel", level),
     evidence_records |->
        FindingRecords(level # "NOT_PEP", <<"pep", "0">>, <<"pep", "clear">>, "PEPDetection", entity)]

AdverseMediaResult(source, id_found, id_clear, entity, level) ==
    [cls |-> "AdverseMediaResult", entity_screened |-> entity,
     overall_level |-> Enum("AdverseMediaLevel", level),
     evidence_records |->
        FindingRecords(level # "CLEAR", id_found, id_clear, source, entity)]

EntityVerification(entity) ==
    [cls |-> "EntityVerification", entity_name |-> entity,
     evidence_records |->
        <<EvidenceRecord(<<"ev_reg", "0">>, "EntityVerification", entity, "S", "CLEAR", "HIGH")>>]

ClientCountries(client) ==
    IF IsIndividual(client) THEN {client.citizenship}
    ELSE {client.countries_of_operation[i] : i \in DOMAIN client.countries_of_operation}

JurisdictionRiskResult(client) ==
    LET black == ClientCountries(client) \cap FATF_BLACK_LIST # {}
    IN [cls |-> "JurisdictionRiskResult",
        overall_jurisdiction_risk |-> Enum("RiskLevel", IF black THEN "HIGH" ELSE "LOW"),
        evidence_records |->
           IF black
           THEN <<EvidenceRecord(<<"jur_black", "ira">>, "JurisdictionRisk", "Iran", "V",
                                 "PENDING_REVIEW", "HIGH")>>
           ELSE <<EvidenceRecord(<<"jur", "clear">>, "JurisdictionRisk", "Canada", "S",
                                 "CLEAR", "HIGH")>>]

\* agent.research(...) of the agent named agent_name about a subject
research(agent_name, subject, w) ==
    CASE agent_name = "IndividualSanctions" ->
            SanctionsResult("IndividualSanctions", <<"san_ind", "0">>, <<"san_ind", "clear">>,
                            subject, w.findings[subject].sanctions)
      [] agent_name = "EntitySanctions" ->
            SanctionsResult("EntitySanctions", <<"san_ent", "0">>, <<"san_ent", "clear">>,
                            subject, w.findings[subject].sanctions)
      [] agent_name = "PEPDetection" ->
            PEPClassification(subject, w.findings[subject].pep)
      [] agent_name = "IndividualAdverseMedia" ->
            AdverseMediaResult("IndividualAdverseMedia", <<"adv_ind", "0">>, <<"adv_ind", "clear">>,
                               subject, w.findings[subject].media)
      [] agent_name = "BusinessAdverseMedia" ->
            AdverseMediaResult("BusinessAdverseMedia", <<"adv_biz", "0">>, <<"adv_biz", "clear">>,
                               subject, w.findings[subject].media)
      [] agent_name = "EntityVerification" -> EntityVerification(subject)
      [] agent_name = "JurisdictionRisk" -> JurisdictionRiskResult(w.client)

\* collaborators that never raise
NeverRaises(name, w) == FALSE

\* a collaborator that is down raises on every call
Raises(name, w) == name \in w.outage

\* ------------------------------------------------------------------------
\* Python dicts
\* ------------------------------------------------------------------------
EmptyDict == [k \in {} |-> None]
Get(d, k, default) == IF k \in DOMAIN d THEN d[k] ELSE default
DictSet(d, k, val) == [x \in DOMAIN d \cup {k} |-> IF x = k THEN val ELSE d[x]]
\* truthiness of an Optional model / Optional dict value
IsSet(x) == "t" \notin DOMAIN x

\* ------------------------------------------------------------------------
\* Investigation results and the deterministic utilities
\* ------------------------------------------------------------------------
TypedFields ==
    {"individual_sanctions", "pep_classification", "individual_adverse_media",
     "entity_verification", "entity_sanctions", "business_adverse_media",
     "jurisdiction_risk"}
UtilityFields ==
    {"id_verification", "suitability_assessment", "fatca_crs", "edd_requirements",
     "compliance_actions", "business_risk_assessment", "document_requirements"}

InvestigationResults ==
    [k \in TypedFields \cup UtilityFields \cup {"ubo_screening"} |->
        IF k = "ubo_screening" THEN EmptyDict ELSE None]

AGENT_RESULT_FIELD(agent_name) ==
    CASE agent_name = "IndividualSanctions" -> "individual_sanctions"
      [] agent_name = "PEPDetection" -> "pep_classification"
      [] agent_name = "IndividualAdverseMedia" -> "individual_adverse_media"
      [] agent_name = "EntityVerification" -> "entity_verification"
      [] agent_name = "EntitySanctions" -> "entity_sanctions"
      [] agent_name = "BusinessAdverseMedia" -> "business_adverse_media"
      [] agent_name = "JurisdictionRisk" -> "jurisdiction_risk"

UTILITY_RESULT_FIELD(util_name) ==
    CASE util_name = "id_verification" -> "id_verification"
      [] util_name = "suitability" -> "suitability_assessment"
      [] util_name = "individual_fatca_crs" -> "fatca_crs"
      [] util_name = "entity_fatca_crs" -> "fatca_crs"
      [] util_name = "edd_requirements" -> "edd_requirements"
      [] util_name = "compliance_actions" -> "compliance_actions"
      [] util_name = "business_risk_assessment" -> "business_risk_assessment"
      [] util_name = "document_requirements" -> "document_requirements"

\* evidence dict of a utility: JSON-native, enum values and timestamp as text
UtilityEvidence(prefix, source, client, disposition) ==
    [evidence_id |-> <<prefix, ClientName(client)>>, source_type |-> "utility",
     source_name |-> source, entity_screened |-> ClientName(client),
     entity_context |-> Str(IF IsIndividual(client) THEN "individual client"
                            ELSE "business client"),
     evidence_level |-> Str("I"), disposition |-> Str(disposition),
     confidence |-> Str("HIGH"), timestamp |-> Str(Now)]

\* the EDD triggers of assess_edd_requirements that the modelled clients can hit
edd_required(client, risk_assessment, investigation) ==
    \/ IsIndividual(client) /\ client.pep_self_declaration
    \/ /\ IsSet(investigation.pep_classification)
       /\ investigation.pep_classification.detected_level.v # "NOT_PEP"
    \/ ClientCountries(client) \cap (FATF_BLACK_LIST \cup FATF_GREY_LIST) # {}
    \/ \E f \in {"individual_sanctions", "entity_sanctions"} :
          /\ IsSet(investigation[f])
          /\ investigation[f].disposition.v \in
                {"POTENTIAL_MATCH", "CONFIRMED_MATCH", "PENDING_REVIEW"}
    \/ \E n \in DOMAIN investigation.ubo_screening :
          /\ "sanctions" \in DOMAIN investigation.ubo_screening[n]
          /\ investigation.ubo_screening[n]["sanctions"].disposition.v \in
                {"POTENTIAL_MATCH", "CONFIRMED_MATCH", "PENDING_REVIEW"}
    \/ \E f \in {"individual_adverse_media", "business_adverse_media"} :
          /\ IsSet(investigation[f])
          /\ investigation[f].overall_level.v \in {"HIGH_RISK", "MATERIAL_CONCERN"}
    \/ risk_assessment.total_score >= 36
    \/ IsBusiness(client) /\ Len(client.beneficial_owners) = 0

\* whether determine_compliance_actions finds items to escalate
_determine_escalations(client, risk_assessment, investigation) ==
    \/ risk_assessment.risk_level.v = "CRITICAL"
    \/ \E f \in {"individual_sanctions", "entity_sanctions"} :
          /\ IsSet(investigation[f])
          /\ investigation[f].disposition.v \in {"CONFIRMED_MATCH", "POTENTIAL_MATCH"}
    \/ /\ IsSet(investigation.pep_classification)
       /\ investigation.pep_classification.detected_level.v \in
             {"FOREIGN_PEP", "DOMESTIC_PEP", "HIO"}
    \/ \E f \in {"individual_adverse_media", "business_adverse_media"} :
          /\ IsSet(investigation[f])
          /\ investigation[f].overall_level.v = "HIGH_RISK"
    \/ client.third_party_determination

\* func(*args) of the utility named util_name
_run_utility(util_name, client, plan, investigation) ==
    CASE util_name = "id_verification" ->
            [verification_status |-> "pending",
             evidence |-> <<UtilityEvidence(IF IsIndividual(client) THEN "idv_method"
                                            ELSE "idv_business",
                                            "id_verification", client, "PENDING_REVIEW")>>]
      [] util_name = "suitability" ->
            [suitable |-> TRUE,
             evidence |-> <<UtilityEvidence(IF IsIndividual(client) THEN "suit"
                                            ELSE "suit_biz",
                                            "suitability", client, "CLEAR")>>]
      [] util_name = "individual_fatca_crs" ->
            [us_person |-> FALSE,
             evidence |-> <<UtilityEvidence("fatca_clear", "individual_fatca_crs",
                                            client, "CLEAR")>>]
      [] util_name = "entity_fatca_crs" ->
            [us_nexus |-> client.us_nexus,
             evidence |-> <<UtilityEvidence("entity_class", "entity_fatca_crs",
                                            client, "PENDING_REVIEW")>>]
      [] util_name = "business_risk_assessment" ->
            [high_risk_industry |-> client.industry \in HIGH_RISK_INDUSTRIES,
             evidence |-> <<UtilityEvidence("biz_risk", "business_risk_assessment",
                                            client, "PENDING_REVIEW")>>]
      [] util_name = "edd_requirements" ->
            LET edd == edd_required(client, plan.preliminary_risk, investigation)
            IN [edd_required |-> edd,
                evidence |-> <<UtilityEvidence(IF edd THEN "edd_required"
                                               ELSE "edd_not_required",
                                               "edd_requirements", client,
                                               IF edd THEN "PENDING_REVIEW" ELSE "CLEAR")>>]
      [] util_name = "compliance_actions" ->
            LET esc == _determine_escalations(client, plan.preliminary_risk, investigation)
            IN [escalations |-> esc,
                evidence |-> <<UtilityEvidence("compliance", "compliance_actions", client,
                                               IF esc THEN "PENDING_REVIEW" ELSE "CLEAR")>>]

\* ------------------------------------------------------------------------
\* Stage 2 helpers of the pipeline
\* ------------------------------------------------------------------------
\* _store_agent_result: the result field, and the evidence store after it
StoreAgentField(results, agent_name, result) ==
    [results EXCEPT ![AGENT_RESULT_FIELD(agent_name)] = result]
\* a store that takes new records at its head
StoreAgentEvidenceAtHead(store, result) == DumpSeq(result.evidence_records) \o store
StoreAgentEvidence(store, result) == store \o DumpSeq(result.evidence_records)

\* _store_utility_result
StoreUtilityField(results, util_name, result) ==
    [results EXCEPT ![UTILITY_RESULT_FIELD(util_name)] = result]
StoreUtilityEvidence(store, result) ==
    store \o (IF "evidence_records" \in DOMAIN result /\ result.evidence_records # << >>
              THEN result.evidence_records
              ELSE IF "evidence" \in DOMAIN result THEN result.evidence
              ELSE << >>)

\* the three screenings of the cascade, in the order _screen_ubo runs them
UboScreenings ==
    <<[key |-> "sanctions", agent |-> "IndividualSanctions"],
      [key |-> "pep", agent |-> "PEPDetection"],
      [key |-> "adverse_media", agent |-> "IndividualAdverseMedia"]>>

\* f"UBO ({ubo.ownership_percentage}% owner)": ownership_percentage is a
\* float field, a whole number of percent is formatted with one decimal
UboContext(ubo) == Str("UBO (" \o ToString(ubo.ownership_percentage) \o ".0% owner)")

\* er.entity_context = "UBO (..% owner)" on every record, then er.model_dump()
RECURSIVE UboEvidence(_, _)
UboEvidence(records, ubo) ==
    IF records = << >> THEN << >>
    ELSE <<model_dump([Head(records) EXCEPT
                          !.entity_context =
                              UboContext(ubo)])>>
         \o UboEvidence(Tail(records), ubo)

\* _screen_ubo from screening number i on: [ubo_results, evidence_store]
RECURSIVE ScreenUboFrom(_, _, _, _, _)
ScreenUboFrom(i, ubo, w, ubo_results, store) ==
    IF i > Len(UboScreenings) THEN [ubo_results |-> ubo_results, evidence_store |-> store]
    ELSE LET s == UboScreenings[i]
         IN IF Raises(s.agent, w)
            THEN ScreenUboFrom(i + 1, ubo, w, ubo_results, store)
            ELSE LET result == research(s.agent, ubo.full_name, w)
                 IN ScreenUboFrom(i + 1, ubo, w,
                        DictSet(ubo_results, s.key, model_dump(result)),
                        store \o UboEvidence(result.evidence_records, ubo))

\* a cascade whose three screenings share one try block: the first failure
\* ends the screening of the owner
RECURSIVE ScreenUboUntilFailure(_, _, _, _, _)
ScreenUboUntilFailure(i, ubo, w, ubo_results, store) ==
    IF i > Len(UboScreenings) \/ Raises(UboScreenings[i].agent, w)
    THEN [ubo_results |-> ubo_results, evidence_store |-> store]
    ELSE LET result == research(UboScreenings[i].agent, ubo.full_name, w)
         IN ScreenUboUntilFailure(i + 1, ubo, w,
                DictSet(ubo_results, UboScreenings[i].key, model_dump(result)),
                store \o UboEvidence(result.evidence_records, ubo))

_screen_ubo_until_failure(ubo, w, store) ==
    ScreenUboUntilFailure(1, ubo, w, EmptyDict, store)

_screen_ubo(ubo, w, store) == ScreenUboFrom(1, ubo, w, EmptyDict, store)

\* ------------------------------------------------------------------------
\* Checkpoint serialisation of the investigation results
\* ------------------------------------------------------------------------
_serialize_investigation(investigation) ==
    [k \in DOMAIN investigation |->
        IF k \in TypedFields
        THEN (IF IsSet(investigation[k]) THEN model_dump(investigation[k]) ELSE None)
        ELSE investigation[k]]

model_map(field) ==
    CASE field \in {"individual_sanctions", "entity_sanctions"} -> "SanctionsResult"
      [] field = "pep_classification" -> "PEPClassification"
      [] field \in {"individual_adverse_media", "business_adverse_media"} ->
            "AdverseMediaResult"
      [] field = "entity_verification" -> "EntityVerification"
      [] field = "jurisdiction_risk" -> "JurisdictionRiskResult"

_deserialize_investigation(data) ==
    [k \in DOMAIN InvestigationResults |->
        IF k \in TypedFields
        THEN (IF k \in DOMAIN data /\ IsSet(data[k]) /\ CanValidate(model_map(k), data[k])
              THEN Construct(model_map(k), data[k])
              ELSE None)
        ELSE IF k = "ubo_screening" THEN Get(data, k, EmptyDict)
        ELSE Get(data, k, None)]

\* json.dumps(default=str) / json.loads of the serialised investigation
JsonUbo(ubo_screening) ==
    [n \in DOMAIN ubo_screening |->
        [key \in DOMAIN ubo_screening[n] |-> JsonDict(ubo_screening[n][key])]]
JsonInvestigation(data) ==
    [k \in DOMAIN data |->
        IF k \in TypedFields
        THEN (IF IsSet(data[k]) THEN JsonDict(data[k]) ELSE None)
        ELSE IF k = "ubo_screening" THEN JsonUbo(data[k])
        ELSE data[k]]

\* a save that keeps the bookkeeping keys and drops the stage outputs
JsonCheckpointWithoutOutputs(cp) ==
    [k \in DOMAIN cp \cap {"completed_stage", "client_data"} |-> cp[k]]

\* json.dumps(default=str) / json.loads of the whole checkpoint dict
JsonCheckpoint(cp) ==
    [k \in DOMAIN cp |->
        IF k = "investigation" THEN JsonInvestigation(cp[k])
        ELSE IF k = "synthesis" THEN JsonDict(cp[k])
        ELSE cp[k]]

\* ------------------------------------------------------------------------
\* Deterministic recommendation engine
\* ------------------------------------------------------------------------
SanctionsFields == <<"individual_sanctions", "entity_sanctions">>
AdverseMediaFields == <<"individual_adverse_media", "business_adverse_media">>

\* the flags list, each flag by its kind
RecommendationFlags(investigation) ==
    SelectSeq(SanctionsFields,
              LAMBDA f : IsSet(investigation[f])
                         /\ investigation[f].disposition.v = "POTENTIAL_MATCH")
    \o (IF IsSet(investigation.pep_classification)
           /\ investigation.pep_classification.detected_level.v # "NOT_PEP"
        THEN <<"pep_classification">> ELSE << >>)
    \o SelectSeq(AdverseMediaFields,
                 LAMBDA f : IsSet(investigation[f])
                            /\ investigation[f].overall_level.v \in
                                  {"MATERIAL_CONCERN", "HIGH_RISK"})

\* a flag whose text contains "sanctions"
HasSanctionsFlag(flags) ==
    \E i \in DOMAIN flags : flags[i] \in {"individual_sanctions", "entity_sanctions"}

\* the engine without its hard block
recommend_decision_without_hard_block(risk_assessment, investigation) ==
    LET flags == RecommendationFlags(investigation)
        level == risk_assessment.risk_level.v
    IN IF level = "CRITICAL"
       THEN (IF flags # << >> THEN "DECLINE" ELSE "ESCALATE")
       ELSE IF level = "HIGH"
       THEN (IF HasSanctionsFlag(flags) THEN "ESCALATE" ELSE "CONDITIONAL")
       ELSE IF flags # << >> THEN "CONDITIONAL" ELSE "APPROVE"

\* the decision of the tuple (decision, reasoning, conditions)
recommend_decision(risk_assessment, investigation) ==
    LET flags == RecommendationFlags(investigation)
        level == risk_assessment.risk_level.v
    IN IF \E i \in DOMAIN SanctionsFields :
             /\ IsSet(investigation[SanctionsFields[i]])
             /\ investigation[SanctionsFields[i]].disposition.v = "CONFIRMED_MATCH"
       THEN "DECLINE"
       ELSE IF level = "CRITICAL"
       THEN (IF flags # << >> THEN "DECLINE" ELSE "ESCALATE")
       ELSE IF level = "HIGH"
       THEN (IF HasSanctionsFlag(flags) THEN "ESCALATE" ELSE "CONDITIONAL")
       ELSE IF level = "MEDIUM"
       THEN (IF flags # << >> THEN "CONDITIONAL" ELSE "APPROVE")
       ELSE (IF flags # << >> THEN "CONDITIONAL" ELSE "APPROVE")

\* ------------------------------------------------------------------------
\* Synthesis collaborator and Stage 3
\* ------------------------------------------------------------------------
\* str.upper() on the decision texts a response can carry
upper(text) ==
    CASE text = "approve" -> "APPROVE"
      [] text = "decline" -> "DECLINE"
      [] OTHER -> text

\* what the language model behind the synthesis agent can answer:
\* the call raises, or gives a result whose "json" is None or a dict
ReviewItems == <<"Verify source of funds">>
Responses ==
    {[raises |-> TRUE, json |-> None], [raises |-> FALSE, json |-> None]}
    \cup {[raises |-> FALSE,
           json |-> [recommended_decision |-> Str(d),
                     items_requiring_review |->
                        IF d \in {"CONDITIONAL", "ESCALATE"} THEN ReviewItems ELSE << >>,
                     senior_management_approval_needed |-> d \in {"ESCALATE", "DECLINE"}]] :
          d \in {"approve", "CONDITIONAL", "ESCALATE", "DECLINE"}}
    \cup {[raises |-> FALSE, json |-> [recommended_decision |-> Str("MAYBE")]],
          [raises |-> FALSE, json |-> [recommended_decision |-> None]],
          [raises |-> FALSE, json |-> [key_findings |-> <<"No adverse findings">>]]}

KYCSynthesisOutput(decision, items, senior) ==
    [cls |-> "KYCSynthesisOutput", revised_risk_assessment |-> None,
     recommended_decision |-> Enum("OnboardingDecision", decision),
     items_requiring_review |-> items,
     senior_management_approval_needed |-> senior]

ConservativeSynthesis ==
    KYCSynthesisOutput("ESCALATE", <<"All findings require manual review">>, TRUE)

\* _parse_result raises AttributeError on a null decision (None has no upper)
ParseRaises(result) ==
    /\ IsSet(result.json)
    /\ "recommended_decision" \in DOMAIN result.json
    /\ IsNone(result.json.recommended_decision)

_parse_result(result) ==
    LET data == result.json
    IN IF ~IsSet(data) THEN ConservativeSynthesis
       ELSE LET text == upper(Get(data, "recommended_decision", Str("ESCALATE")).v)
            IN KYCSynthesisOutput(
                   IF text \in OnboardingDecision THEN text ELSE "ESCALATE",
                   Get(data, "items_requiring_review", << >>),
                   Get(data, "senior_management_approval_needed", FALSE))

\* score of one screened owner in _run_synthesis
UboScore(ubo_data) ==
    (IF "sanctions" \in DOMAIN ubo_data /\ ubo_data["sanctions"].disposition.v # "CLEAR"
     THEN 30 ELSE 0)
    + (IF "pep" \in DOMAIN ubo_data /\ ubo_data["pep"].detected_level.v # "NOT_PEP"
       THEN 25 ELSE 0)
    + (IF "adverse_media" \in DOMAIN ubo_data
          /\ ubo_data["adverse_media"].overall_level.v # "CLEAR"
       THEN 15 ELSE 0)

RevisedRisk(client, plan, investigation) ==
    IF IsBusiness(client) /\ DOMAIN investigation.ubo_screening # {}
    THEN revise_risk_score(plan.preliminary_risk,
             [n \in DOMAIN investigation.ubo_screening |->
                 UboScore(investigation.ubo_screening[n])],
             << >>)
    ELSE plan.preliminary_risk

_run_synthesis(client, plan, investigation, result) ==
    IF result.raises \/ ParseRaises(result) THEN ConservativeSynthesis
    ELSE [_parse_result(result) EXCEPT
             !.revised_risk_assessment = RevisedRisk(client, plan, investigation)]

\* ------------------------------------------------------------------------
\* State
\* ------------------------------------------------------------------------
\* A file is << >> when it does not exist and <<content>> when it does.
VARIABLES
    world,            \* client, findings and collaborators that are down
    checkpoint_file,  \* results/<client_id>/checkpoint.json
    plan_file,        \* 01_intake/investigation_plan.json
    evidence_file,    \* 02_investigation/evidence_store.json
    review_file,      \* 04_review/review_session.json
    reports,          \* stage directories holding generated briefs
    pc,               \* position of the running entry point, "idle" if none
    resume,           \* self.resume
    checkpoint,       \* self.checkpoint
    evidence_store,   \* self.evidence_store
    completed_stage,  \* the local completed_stage of run
    investigation,    \* the InvestigationResults being built / reconstructed
    i,                \* position in the list the current loop walks
    synthesis,        \* the local synthesis of run
    calls,            \* collaborator calls and checkpoint reads of the running process
    output,           \* what the last entry point returned or raised
    invocations,      \* entry points started so far
    application       \* a Stage 1 function applied on its own: arguments and result

vars ==
    <<world, checkpoint_file, plan_file, evidence_file, review_file, reports, pc,
      resume, checkpoint, evidence_store, completed_stage, investigation, i,
      synthesis, calls, output, invocations, application>>

disk == <<checkpoint_file, plan_file, evidence_file, review_file, reports>>
memory == <<resume, checkpoint, evidence_store, completed_stage, investigation, i, synthesis>>

client == world.client
plan == build_investigation_plan(world.client)

NoOutput == [entry |-> "none", raised |-> FALSE]
NoApplication == [fn |-> "none"]
Call(kind, name, subject) == [kind |-> kind, name |-> name, subject |-> subject]

\* the call of the synthesis collaborator, with what it answered
SynthesisCall(result) ==
    [kind |-> "synthesis", name |-> "KYCSynthesis", subject |-> ClientName(client),
     result |-> result]

\* KYCPipeline.__init__: a new process starts with these
FreshMemory ==
    /\ resume' = FALSE
    /\ checkpoint' = EmptyDict
    /\ evidence_store' = << >>
    /\ completed_stage' = 0
    /\ investigation' = InvestigationResults
    /\ i' = 1
    /\ synthesis' = None

Init ==
    /\ world \in Worlds
    /\ checkpoint_file = << >>
    /\ plan_file = << >>
    /\ evidence_file = << >>
    /\ review_file = << >>
    /\ reports = {}
    /\ pc = "idle"
    /\ resume = FALSE
    /\ checkpoint = EmptyDict
    /\ evidence_store = << >>
    /\ completed_stage = 0
    /\ investigation = InvestigationResults
    /\ i = 1
    /\ synthesis = None
    /\ calls = << >>
    /\ output = NoOutput
    /\ invocations = 0
    /\ application = NoApplication

\* ------------------------------------------------------------------------
\* run
\* ------------------------------------------------------------------------
\* a loader that reads the file whatever the resume flag says
_load_checkpoint_ignoring_resume(resume_flag, file) ==
    IF file # << >> THEN file[1] ELSE EmptyDict

_load_checkpoint(resume_flag, file) ==
    IF resume_flag /\ file # << >> THEN file[1] ELSE EmptyDict

\* run up to Stage 2: intake, load the checkpoint, save Stage 1, keep client_data
StartRun(resume_flag) ==
    /\ pc = "idle"
    /\ invocations < MaxInvocations
    /\ invocations' = invocations + 1
    /\ resume' = resume_flag
    /\ LET loaded == _load_checkpoint(resume_flag, checkpoint_file)
       IN /\ checkpoint' = DictSet(loaded, "client_data", client)
          /\ completed_stage' = Get(loaded, "completed_stage", 0)
          /\ pc' = IF Get(loaded, "completed_stage", 0) < 2 THEN "agents" ELSE "cached2"
    /\ calls' = IF resume_flag /\ checkpoint_file # << >>
                THEN <<Call("load_checkpoint", "checkpoint.json", plan.client_id)>>
                ELSE << >>
    /\ plan_file' = <<JsonDict(model_dump(plan))>>
    /\ evidence_store' = << >>
    /\ investigation' = InvestigationResults
    /\ i' = 1
    /\ synthesis' = None
    /\ output' = NoOutput
    /\ UNCHANGED <<application, world, checkpoint_file, evidence_file, review_file, reports>>

\* _run_agent fails on a name without dispatch entry and when the agent raises
AgentFails(agent_name) == agent_name \notin AgentNames \/ Raises(agent_name, world)
UtilityFails(util_name) == util_name \notin UtilityNames \/ Raises(util_name, world)

\* one iteration of the agent loop of _run_investigation
RunAgent ==
    /\ pc = "agents"
    /\ LET agent_name == plan.agents_to_run[i]
           result == research(agent_name, ClientName(client), world)
       IN /\ calls' = Append(calls, Call("task", agent_name, ClientName(client)))
          /\ IF AgentFails(agent_name)
             THEN UNCHANGED <<investigation, evidence_store>>
             ELSE /\ investigation' = StoreAgentField(investigation, agent_name, result)
                  /\ evidence_store' = StoreAgentEvidence(evidence_store, result)
    /\ IF i < Len(plan.agents_to_run)
       THEN i' = i + 1 /\ pc' = pc
       ELSE i' = 1 /\ pc' = IF plan.ubo_cascade_needed /\ IsBusiness(client)
                             THEN "cascade" ELSE "utilities"
    /\ UNCHANGED <<application, world, disk, resume, checkpoint, completed_stage, synthesis,
                   output, invocations>>

\* one iteration of the cascade loop: _screen_ubo for owner number i
ScreenUbo ==
    /\ pc = "cascade"
    /\ LET ubo == client.beneficial_owners[i]
           screened == _screen_ubo(ubo, world, evidence_store)
       IN /\ calls' = calls \o [n \in DOMAIN UboScreenings |->
                                   Call("cascade", UboScreenings[n].agent, ubo.full_name)]
          /\ investigation' =
                [investigation EXCEPT !.ubo_screening =
                    DictSet(investigation.ubo_screening, ubo.full_name,
                            screened.ubo_results)]
          /\ evidence_store' = screened.evidence_store
    /\ IF i < Len(client.beneficial_owners)
       THEN i' = i + 1 /\ pc' = pc
       ELSE i' = 1 /\ pc' = "utilities"
    /\ UNCHANGED <<application, world, disk, resume, checkpoint, completed_stage, synthesis,
                   output, invocations>>

\* one iteration of the utility loop
RunUtility ==
    /\ pc = "utilities"
    /\ LET util_name == plan.utilities_to_run[i]
           result == _run_utility(util_name, client, plan, investigation)
       IN /\ calls' = Append(calls, Call("utility", util_name, ClientName(client)))
          /\ IF UtilityFails(util_name)
             THEN UNCHANGED <<investigation, evidence_store>>
             ELSE /\ investigation' = StoreUtilityField(investigation, util_name, result)
                  /\ evidence_store' = StoreUtilityEvidence(evidence_store, result)
    /\ IF i < Len(plan.utilities_to_run)
       THEN i' = i + 1 /\ pc' = pc
       ELSE i' = 1 /\ pc' = "investigated"
    /\ UNCHANGED <<application, world, disk, resume, checkpoint, completed_stage, synthesis,
                   output, invocations>>

\* Stage 2 finished: advance the watermark, keep the results, save the checkpoint
CompleteInvestigation ==
    /\ pc = "investigated"
    /\ LET cp == DictSet(DictSet(checkpoint, "completed_stage", 2),
                         "investigation", _serialize_investigation(investigation))
       IN /\ checkpoint' = cp
          /\ checkpoint_file' = <<JsonCheckpoint(cp)>>
    /\ pc' = "evidence"
    /\ UNCHANGED <<application, world, plan_file, evidence_file, review_file, reports, resume,
                   evidence_store, completed_stage, investigation, i, synthesis,
                   calls, output, invocations>>

\* Stage 2 (cached): the results come from the checkpoint
SkipInvestigation ==
    /\ pc = "cached2"
    /\ investigation' = _deserialize_investigation(Get(checkpoint, "investigation", EmptyDict))
    /\ pc' = "evidence"
    /\ UNCHANGED <<application, world, disk, resume, checkpoint, evidence_store, completed_stage, i,
                   synthesis, calls, output, invocations>>

\* _save_evidence_store
SaveEvidenceStore ==
    /\ pc = "evidence"
    /\ evidence_file' = <<JsonList(evidence_store)>>
    /\ pc' = IF completed_stage < 3 THEN "synthesis" ELSE "cached3"
    /\ UNCHANGED <<application, world, checkpoint_file, plan_file, review_file, reports, memory,
                   calls, output, invocations>>

\* Stage 3: _run_synthesis, advance the watermark, save the checkpoint
RunSynthesis ==
    /\ pc = "synthesis"
    /\ \E result \in Responses :
          LET synth == _run_synthesis(client, plan, investigation, result)
              cp == DictSet(DictSet(checkpoint, "completed_stage", 3),
                            "synthesis", model_dump(synth))
          IN /\ synthesis' = synth
             /\ checkpoint' = cp
             /\ checkpoint_file' = <<JsonCheckpoint(cp)>>
             /\ calls' = Append(calls, SynthesisCall(result))
    /\ pc' = "review"
    /\ UNCHANGED <<application, world, plan_file, evidence_file, review_file, reports, resume,
                   evidence_store, completed_stage, investigation, i, output,
                   invocations>>

\* KYCSynthesisOutput(**synth_data) if synth_data else None
LoadSynthesis(cp) ==
    IF IsSet(Get(cp, "synthesis", None))
    THEN Construct("KYCSynthesisOutput", cp["synthesis"])
    ELSE None
LoadSynthesisRaises(cp) ==
    /\ IsSet(Get(cp, "synthesis", None))
    /\ ~CanValidate("KYCSynthesisOutput", cp["synthesis"])

Raised(entry) == [entry |-> entry, raised |-> TRUE]

\* Stage 3 (cached): the synthesis output comes from the checkpoint
SkipSynthesis ==
    /\ pc = "cached3"
    /\ IF LoadSynthesisRaises(checkpoint)
       THEN /\ output' = Raised("run")
            /\ pc' = "idle"
            /\ calls' = << >>
            /\ FreshMemory
       ELSE /\ synthesis' = LoadSynthesis(checkpoint)
            /\ pc' = "review"
            /\ UNCHANGED <<resume, checkpoint, evidence_store, completed_stage,
                           investigation, i, output, calls>>
    /\ UNCHANGED <<application, world, disk, invocations>>

\* a session that is born finalized
ReviewSessionFinalized(client_id) ==
    [client_id |-> client_id, actions |-> << >>, finalized |-> TRUE]
ReviewSession(client_id) == [client_id |-> client_id, actions |-> << >>, finalized |-> FALSE]

FinalDecisionOf(synth) == IF IsSet(synth) THEN synth.recommended_decision ELSE None

KYCOutput(entry, plan_used, results, synth, review_session, final_decision) ==
    [entry |-> entry, raised |-> FALSE, intake_classification |-> plan_used,
     investigation_results |-> results, synthesis |-> synth,
     review_session |-> review_session, final_decision |-> final_decision]

\* Stage 3 outputs, Stage 4: a new review session is saved and run returns
PauseForReview ==
    /\ pc = "review"
    /\ reports' = reports \cup {"03_synthesis"}
    /\ review_file' = <<ReviewSession(plan.client_id)>>
    /\ output' = KYCOutput("run", plan, investigation, synthesis,
                           <<ReviewSession(plan.client_id)>>, FinalDecisionOf(synthesis))
    /\ pc' = "idle"
    /\ calls' = << >>
    /\ FreshMemory
    /\ UNCHANGED <<application, world, checkpoint_file, plan_file, evidence_file, invocations>>

\* ------------------------------------------------------------------------
\* finalize
\* ------------------------------------------------------------------------
FinalizeDecision(plan_used, synth, results) ==
    IF IsSet(plan_used) /\ IsSet(synth)
       /\ recommend_decision(IF IsSet(synth.revised_risk_assessment)
                             THEN synth.revised_risk_assessment
                             ELSE plan_used.preliminary_risk,
                             results) = "DECLINE"
    THEN Enum("OnboardingDecision", "DECLINE")
    ELSE FinalDecisionOf(synth)

Finalize ==
    /\ pc = "idle"
    /\ invocations < MaxInvocations
    /\ invocations' = invocations + 1
    /\ calls' = << >>
    /\ IF checkpoint_file = << >>
          \/ LoadSynthesisRaises(checkpoint_file[1])
          \/ (plan_file # << >> /\ ~CanValidate("InvestigationPlan", plan_file[1]))
       THEN /\ output' = Raised("finalize")
            /\ UNCHANGED <<review_file, reports>>
       ELSE LET cp == checkpoint_file[1]
                review_session ==
                    IF review_file = << >> THEN << >>
                    ELSE <<[review_file[1] EXCEPT !.finalized = TRUE]>>
                synth == LoadSynthesis(cp)
                plan_used == IF plan_file = << >> THEN None
                             ELSE Construct("InvestigationPlan", plan_file[1])
                inv_data == Get(cp, "investigation", EmptyDict)
                results == IF DOMAIN inv_data # {}
                           THEN _deserialize_investigation(inv_data)
                           ELSE InvestigationResults
            IN /\ reports' = reports \cup {"05_output"}
               /\ review_file' = review_session
               /\ output' = KYCOutput("finalize", plan_used, results, synth,
                                      review_session,
                                      FinalizeDecision(plan_used, synth, results))
    /\ UNCHANGED <<application, world, checkpoint_file, plan_file, evidence_file, pc, memory>>

\* ------------------------------------------------------------------------
\* External interrupt: the process dies where it stands, the files stay
\* ------------------------------------------------------------------------
Interrupt ==
    /\ pc # "idle"
    /\ pc' = "idle"
    /\ output' = [entry |-> "interrupted", raised |-> TRUE]
    /\ calls' = << >>
    /\ FreshMemory
    /\ UNCHANGED <<application, world, disk, invocations>>

Next ==
    \/ \E resume_flag \in BOOLEAN : StartRun(resume_flag)
    \/ RunAgent
    \/ ScreenUbo
    \/ RunUtility
    \/ CompleteInvestigation
    \/ SkipInvestigation
    \/ SaveEvidenceStore
    \/ RunSynthesis
    \/ SkipSynthesis
    \/ PauseForReview
    \/ Finalize
    \/ Interrupt

Spec == Init /\ [][Next]_vars

TypeOK == pc \in {"idle", "agents", "cascade", "utilities", "investigated", "cached2",
                  "evidence", "synthesis", "cached3", "review"}

\* ------------------------------------------------------------------------
\* Properties: hard block on confirmed sanctions matches
\* ------------------------------------------------------------------------
Decision(d) == Enum("OnboardingDecision", d)

\* a confirmed match in the individual or the entity sanctions result
ConfirmedMatchIn(results) ==
    \E n \in DOMAIN SanctionsFields :
       /\ SanctionsFields[n] \in DOMAIN results
       /\ IsSet(results[SanctionsFields[n]])
       /\ results[SanctionsFields[n]].disposition.v = "CONFIRMED_MATCH"

PersistedInvestigation ==
    IF checkpoint_file = << >> THEN EmptyDict
    ELSE Get(checkpoint_file[1], "investigation", EmptyDict)

Returned(entry) == output.entry = entry /\ ~output.raised

\* C1: whenever the persisted state holds a CONFIRMED_MATCH in the individual
\* or the entity sanctions result and a synthesis output, finalize returns
\* final_decision DECLINE, whatever the synthesis recommendation and the risk level.
C1_FinalizeDeclinesConfirmedMatch ==
    (/\ Returned("finalize")
     /\ IsSet(output.synthesis)
     /\ ConfirmedMatchIn(PersistedInvestigation))
    => output.final_decision = Decision("DECLINE")

C1_Witness ==
    /\ Returned("finalize")
    /\ IsSet(output.synthesis)
    /\ ConfirmedMatchIn(PersistedInvestigation)
    /\ output.synthesis.recommended_decision = Decision("APPROVE")
    /\ output.final_decision = Decision("DECLINE")

\* C2: every result object the pipeline returns (from run pausing for review
\* as well as from finalize) whose investigation results hold a CONFIRMED_MATCH
\* sanctions disposition has final_decision DECLINE.
C2_EveryResultDeclinesConfirmedMatch ==
    (/\ Returned("run") \/ Returned("finalize")
     /\ IsSet(output.synthesis)
     /\ ConfirmedMatchIn(output.investigation_results))
    => output.final_decision = Decision("DECLINE")

\* C3: in finalize, when neither sanctions disposition is CONFIRMED_MATCH, the
\* final_decision is the recommended_decision of the synthesis output.
C3_OverrideOnlyOnConfirmedMatch ==
    (/\ Returned("finalize")
     /\ IsSet(output.synthesis)
     /\ ~ConfirmedMatchIn(output.investigation_results))
    => output.final_decision = output.synthesis.recommended_decision

\* ------------------------------------------------------------------------
\* Properties: resume and the checkpoint
\* ------------------------------------------------------------------------
Running == pc # "idle"

InvestigationCalls(cs) ==
    SelectSeq(cs, LAMBDA c : c.kind \in {"task", "cascade", "utility"})
SynthesisCalls(cs) == SelectSeq(cs, LAMBDA c : c.kind = "synthesis")
CheckpointReads(cs) == SelectSeq(cs, LAMBDA c : c.kind = "load_checkpoint")

\* the calls of a full Investigation, in plan order
ExpectedCalls ==
    [n \in 1..Len(plan.agents_to_run) |->
        Call("task", plan.agents_to_run[n], ClientName(client))]
    \o (IF plan.ubo_cascade_needed
        THEN [n \in 1..(Len(UboScreenings) * Len(client.beneficial_owners)) |->
                 Call("cascade",
                      UboScreenings[((n - 1) % Len(UboScreenings)) + 1].agent,
                      client.beneficial_owners[((n - 1) \div Len(UboScreenings)) + 1].full_name)]
        ELSE << >>)
    \o [n \in 1..Len(plan.utilities_to_run) |->
           Call("utility", plan.utilities_to_run[n], ClientName(client))]

Watermark(file) == IF file = << >> THEN 0 ELSE Get(file[1], "completed_stage", 0)

\* C4: a run entered with resume=true on a checkpoint whose watermark covers
\* Investigation invokes no task, cascade screening or utility and takes the
\* results from the checkpoint; when the watermark covers Synthesis it does not
\* invoke the synthesis collaborator and takes the output from the checkpoint;
\* a run entered with resume=false never reads the checkpoint and executes
\* the whole Investigation and the Synthesis.
C4_ResumeSkipsCoveredStages ==
    /\ [](/\ (Running /\ resume /\ completed_stage >= 2) =>
                /\ InvestigationCalls(calls) = << >>
                /\ pc \in {"evidence", "synthesis", "cached3", "review"} =>
                      investigation = _deserialize_investigation(PersistedInvestigation)
          /\ (Running /\ resume /\ completed_stage >= 3) =>
                /\ SynthesisCalls(calls) = << >>
                /\ pc = "review" => synthesis = LoadSynthesis(checkpoint_file[1])
          /\ (Running /\ ~resume) =>
                /\ CheckpointReads(calls) = << >>
                /\ completed_stage = 0
                /\ pc \in {"investigated", "evidence", "synthesis", "review"} =>
                      InvestigationCalls(calls) = ExpectedCalls
                /\ pc = "review" => Len(SynthesisCalls(calls)) = 1)
    /\ [][(pc = "idle" /\ pc' # "idle" /\ resume') =>
             completed_stage' = Watermark(checkpoint_file)]_vars

C4_Witness ==
    /\ pc = "review"
    /\ resume
    /\ completed_stage = 3
    /\ calls = <<Call("load_checkpoint", "checkpoint.json", plan.client_id)>>
    /\ IsSet(synthesis)

\* evidence records held by the typed results of a serialised investigation
PersistedEvidence ==
    UNION {{PersistedInvestigation[f].evidence_records[n] :
               n \in DOMAIN PersistedInvestigation[f].evidence_records} :
           f \in {g \in TypedFields \cap DOMAIN PersistedInvestigation :
                     IsSet(PersistedInvestigation[g])}}

\* C5: when a resumed run skips Investigation, the evidence file keeps the
\* records, in their order, that the original Investigation wrote, and the
\* store handed to the synthesis collaborator holds the persisted records.
C5_ResumeKeepsEvidenceStore ==
    /\ [][(pc = "evidence" /\ resume /\ completed_stage >= 2 /\ evidence_file # << >>)
             => evidence_file' = evidence_file]_vars
    /\ []((pc = "synthesis" /\ resume /\ completed_stage >= 2) =>
             \A r \in PersistedEvidence :
                \E n \in DOMAIN evidence_store : JsonDict(evidence_store[n]) = r)

\* Python equality of dumps: a str-Enum member equals its value; timestamps
\* are left out of the comparison
PyScalar(x) == IF x.t \in EnumClasses THEN Str(x.v) ELSE x
RECURSIVE PyDict(_)
RECURSIVE PyList(_)
PyList(ds) == IF ds = << >> THEN << >> ELSE <<PyDict(Head(ds))>> \o PyList(Tail(ds))
PyDict(d) ==
    [k \in DOMAIN d |->
        IF k = "timestamp" THEN None
        ELSE IF k \in ScalarFields THEN PyScalar(d[k])
        ELSE IF k \in NestedListFields THEN PyList(d[k])
        ELSE d[k]]
PyUbo(ubo_screening) ==
    [n \in DOMAIN ubo_screening |->
        [key \in DOMAIN ubo_screening[n] |-> PyDict(ubo_screening[n][key])]]

\* field-by-field equality of two InvestigationResults
PyEqual(a, b) ==
    \A k \in DOMAIN a :
       IF k = "ubo_screening" THEN PyUbo(a[k]) = PyUbo(b[k]) ELSE a[k] = b[k]

RoundTrip(results) ==
    _deserialize_investigation(JsonInvestigation(_serialize_investigation(results)))

\* C6: serialising the InvestigationResults of a run into the checkpoint and
\* deserialising them gives back every task field, utility field and cascade
\* entry, and the results a resumed run reconstructs serialise to the
\* persisted ones.
C6_SerializeDeserializeIdentity ==
    /\ PyEqual(RoundTrip(investigation), investigation)
    /\ (resume /\ completed_stage >= 2
        /\ pc \in {"evidence", "synthesis", "cached3", "review"}) =>
          JsonInvestigation(_serialize_investigation(investigation)) = PersistedInvestigation

C6_Witness ==
    /\ pc = "review"
    /\ resume
    /\ completed_stage >= 2
    /\ DOMAIN investigation.ubo_screening # {}
    /\ IsSet(investigation.entity_sanctions)
    /\ IsSet(investigation.edd_requirements)

\* C7 (as stated): the persisted watermark never decreases during a run.
C7_WatermarkNeverDecreases ==
    [][Running => Watermark(checkpoint_file') >= Watermark(checkpoint_file)]_vars

\* the persisted checkpoint holds the output of every stage up to its watermark
CheckpointComplete(file) ==
    file # << >> =>
       /\ Watermark(file) \in {2, 3}
       /\ "investigation" \in DOMAIN file[1]
       /\ Watermark(file) = 3 => IsSet(Get(file[1], "synthesis", None))

\* C7 (amended): the persisted checkpoint always holds the output of every
\* stage up to its watermark; the watermark moves to 2 only when Investigation
\* has returned, with the results it returned, and to 3 only when Synthesis
\* has returned; an interrupt leaves the checkpoint as it was; and during a
\* run entered with resume=true, or with no checkpoint persisted yet, the
\* persisted watermark never decreases.
C7_CheckpointReflectsCompletedStages ==
    /\ []CheckpointComplete(checkpoint_file)
    /\ [][/\ Watermark(checkpoint_file') # Watermark(checkpoint_file) =>
                \/ /\ Watermark(checkpoint_file') = 2
                   /\ pc = "investigated"
                   /\ checkpoint_file'[1].investigation =
                         JsonInvestigation(_serialize_investigation(investigation))
                \/ /\ Watermark(checkpoint_file') = 3
                   /\ pc = "synthesis"
                   /\ pc' = "review"
          /\ (Running /\ output'.entry = "interrupted") =>
                checkpoint_file' = checkpoint_file
          /\ (Running /\ (resume \/ checkpoint_file = << >>)) =>
                Watermark(checkpoint_file') >= Watermark(checkpoint_file)]_vars

C7_Witness ==
    /\ output.entry = "interrupted"
    /\ invocations = 2
    /\ Watermark(checkpoint_file) = 3
    /\ evidence_file # << >>

Unusable(result) ==
    \/ result.raises
    \/ ~IsSet(result.json)
    \/ "recommended_decision" \notin DOMAIN result.json
    \/ upper(result.json.recommended_decision.v) \notin OnboardingDecision

\* C9: when the synthesis collaborator raises or returns nothing usable, the
\* stored output recommends ESCALATE with senior_management_approval_needed
\* true and a non-empty items_requiring_review, the watermark 3 is persisted
\* with that output, and the run stands at Review.
C9_SynthesisFailureEscalates ==
    (/\ pc = "review"
     /\ SynthesisCalls(calls) # << >>
     /\ Unusable(SynthesisCalls(calls)[1].result))
    => /\ synthesis.recommended_decision = Decision("ESCALATE")
       /\ synthesis.senior_management_approval_needed
       /\ synthesis.items_requiring_review # << >>
       /\ Watermark(checkpoint_file) = 3
       /\ checkpoint_file[1].synthesis = JsonDict(model_dump(synthesis))

\* C10: every result of run or finalize on a client with a persisted
\* checkpoint carries a decision, which is ESCALATE when no synthesis output
\* is available; neither entry point raises.
C10_EveryResultCarriesDecision ==
    (output.entry \in {"run", "finalize"} /\ checkpoint_file # << >>)
    => /\ ~output.raised
       /\ output.final_decision.v \in OnboardingDecision
       /\ ~IsSet(output.synthesis) => output.final_decision = Decision("ESCALATE")

\* ------------------------------------------------------------------------
\* Checkpoint reload over a damaged checkpoint file
\* ------------------------------------------------------------------------
\* the dumps a persisted model dump can decay into so that Model(**d) fails:
\* a required key is gone, or an enum field holds a text that is no member
Damaged(cls, d) ==
    {[k \in DOMAIN d \ {r} |-> d[k]] : r \in RequiredKeys(cls) \cap DOMAIN d}
    \cup {[d EXCEPT ![k] = Str("corrupt")] :
             k \in {f \in DOMAIN d \cap ScalarFields : FieldType(cls, f) \in EnumClasses}}

\* the checkpoint fields that hold the dump of a model, with their class
ModelFields(cp) ==
    {f \in TypedFields : IsSet(Get(Get(cp, "investigation", EmptyDict), f, None))}
    \cup {f \in {"synthesis"} : IsSet(Get(cp, f, None))}
ModelClass(f) == IF f = "synthesis" THEN "KYCSynthesisOutput" ELSE model_map(f)
ModelDump(cp, f) == IF f = "synthesis" THEN cp[f] ELSE cp["investigation"][f]
WithDump(cp, f, d) ==
    IF f = "synthesis" THEN [cp EXCEPT !["synthesis"] = d]
    ELSE [cp EXCEPT !["investigation"][f] = d]

Intact(cp) == \A f \in ModelFields(cp) : CanValidate(ModelClass(f), ModelDump(cp, f))

\* between two invocations one model dump of an intact checkpoint file decays
CorruptCheckpoint ==
    /\ pc = "idle"
    /\ checkpoint_file # << >>
    /\ Intact(checkpoint_file[1])
    /\ \E f \in ModelFields(checkpoint_file[1]) :
          \E d \in Damaged(ModelClass(f), ModelDump(checkpoint_file[1], f)) :
             checkpoint_file' = <<WithDump(checkpoint_file[1], f, d)>>
    /\ UNCHANGED <<application, world, plan_file, evidence_file, review_file, reports, pc, memory,
                   calls, output, invocations>>

\* the clients with the gravest findings and every collaborator up
ReloadInit == Init /\ world.outage = {} /\ world.findings = AdverseFindings(world.client)

ReloadNext ==
    \/ \E resume_flag \in BOOLEAN : StartRun(resume_flag)
    \/ RunAgent
    \/ ScreenUbo
    \/ RunUtility
    \/ CompleteInvestigation
    \/ SkipInvestigation
    \/ SaveEvidenceStore
    \/ RunSynthesis
    \/ SkipSynthesis
    \/ PauseForReview
    \/ Finalize
    \/ Interrupt
    \/ CorruptCheckpoint

ReloadSpec == ReloadInit /\ [][ReloadNext]_vars

\* what a reload that replaces the failing fields by their empty default gives
ReloadedField(cp, f) ==
    IF f \in ModelFields(cp) /\ CanValidate(ModelClass(f), ModelDump(cp, f))
    THEN Construct(ModelClass(f), ModelDump(cp, f))
    ELSE None
ReloadedInvestigation(cp) ==
    [k \in DOMAIN InvestigationResults |->
        IF k \in TypedFields THEN ReloadedField(cp, k)
        ELSE IF k = "ubo_screening" THEN Get(Get(cp, "investigation", EmptyDict), k, EmptyDict)
        ELSE Get(Get(cp, "investigation", EmptyDict), k, None)]

\* C11: on checkpoint reload, in a resumed run and in finalize alike, neither
\* entry point raises over a checkpoint field that fails to reconstruct: that
\* field (a typed result or the synthesis output) is replaced by its empty
\* default and every other field is loaded with its persisted value.
C11_ReloadDefaultsFailingFields ==
    [][/\ (pc = "idle" /\ output'.entry = "finalize" /\ invocations' # invocations
            /\ checkpoint_file # << >>) =>
              /\ ~output'.raised
              /\ output'.investigation_results = ReloadedInvestigation(checkpoint_file[1])
              /\ output'.synthesis = ReloadedField(checkpoint_file[1], "synthesis")
       /\ (pc = "cached2" /\ pc' # "idle") =>
              investigation' = ReloadedInvestigation(checkpoint_file[1])
       /\ (pc = "cached3" /\ output'.entry # "interrupted") =>
              /\ pc' = "review"
              /\ synthesis' = ReloadedField(checkpoint_file[1], "synthesis")]_vars

\* ------------------------------------------------------------------------
\* Properties: Review halts the run
\* ------------------------------------------------------------------------
\* Finalize work done by a step: the final reports are written, or the
\* persisted review session becomes finalized
FinalizeWork ==
    \/ "05_output" \in reports' \ reports
    \/ /\ review_file' # << >>
       /\ review_file'[1].finalized
       /\ (review_file = << >> \/ ~review_file[1].finalized)

IsPrefix(s, t) == Len(s) <= Len(t) /\ s = SubSeq(t, 1, Len(s))

\* positions in the Investigation (calls) of the calls an evidence record can
\* come from: the task or utility of that name, the cascade screening of that
\* owner
CallIndexes(expected, record) ==
    {n \in DOMAIN expected :
        /\ expected[n].name = record.source_name
        /\ expected[n].kind = "cascade" => expected[n].subject = record.entity_screened}

\* the position of every record of the store, 0 for a record of no call
StoreIndex(expected, store) ==
    [n \in DOMAIN store |->
        IF CallIndexes(expected, store[n]) = {} THEN 0
        ELSE CHOOSE k \in CallIndexes(expected, store[n]) : TRUE]

\* C13: the Evidence Store is append-only within a run: every step of a run
\* leaves it unchanged or extends it at its end, so no record in it is changed,
\* removed or de-duplicated, and its records stand in execution order: those
\* of the plan's tasks in plan order, then those of each cascade subject in
\* owner order (sanctions, PEP, adverse media), then those of the utilities
\* in plan order, each from a call that has been made.
C13_EvidenceStoreAppendOnly ==
    /\ [](LET index == StoreIndex(ExpectedCalls, evidence_store)
              made == Len(InvestigationCalls(calls))
          IN \A n \in DOMAIN index :
                /\ index[n] \in 1..made
                /\ n > 1 => index[n - 1] <= index[n])
    /\ [][(pc # "idle" /\ pc' # "idle") => IsPrefix(evidence_store, evidence_store')]_vars

\* a whole Investigation with cascade has filled the store
C13_Witness ==
    /\ pc = "investigated"
    /\ InvestigationCalls(calls) = ExpectedCalls
    /\ LET expected == ExpectedCalls
           index == StoreIndex(expected, evidence_store)
       IN \E m, n \in DOMAIN index :
             /\ expected[index[m]].kind = "cascade"
             /\ expected[index[n]].kind = "utility"
    /\ Len(evidence_store) >= 10

\* C14: within one client run no two records of the Evidence Store share an
\* evidence_id, the records of different cascade subjects and of a cascade
\* and a primary screening by the same task included.
C14_EvidenceIdsUnique ==
    \A m, n \in DOMAIN evidence_store :
       m # n => evidence_store[m].evidence_id # evidence_store[n].evidence_id

\* ------------------------------------------------------------------------
\* Stage 1 functions applied on their own
\* ------------------------------------------------------------------------
run_state ==
    <<world, checkpoint_file, plan_file, evidence_file, review_file, reports, pc,
      resume, checkpoint, evidence_store, completed_stage, investigation, i,
      synthesis, calls, output, invocations>>

\* sequences of at most n elements of S
SeqsUpTo(S, n) == UNION {[1..k -> S] : k \in 0..n}

\* risk factors by their points: those an intake pass gives, and those a
\* synthesis pass may hand over (points is a plain int)
IntakeFactors == {RiskFactor("intake factor", p, "intake", "client_intake") : p \in {0, 15, 25}}
SynthesisFactors == {RiskFactor("synthesis factor", p, "synthesis", "synthesis") : p \in {-5, 0, 10}}

\* preliminary assessments: those of the modelled clients, and those of an
\* intake pass over any list of intake factors
Preliminaries ==
    {calculate_individual_risk_score(c) : c \in {c \in Clients : IsIndividual(c)}}
    \cup {calculate_business_risk_score(c) : c \in {c \in Clients : IsBusiness(c)}}
    \cup {RiskAssessment(fs, TRUE, IntakeHistory(fs)) : fs \in SeqsUpTo(IntakeFactors, MaxFactors)}

\* related-party score maps: the scores _run_synthesis can give an owner
RelatedParties == {"X", "Y"}
RelatedScores == {0, 15, 25, 30, 45, 70}
ScoreMaps == UNION {[S -> RelatedScores] : S \in SUBSET RelatedParties}

ExtraFactors == SeqsUpTo(SynthesisFactors, MaxFactors)

\* revise_risk_score copies the lists of the preliminary assessment
\* (list(preliminary.risk_factors), list(preliminary.score_history)) and
\* assigns nothing on it: the assessment passed in after the call
AfterRevise(preliminary) == preliminary

Revise ==
    /\ application.fn = "none"
    /\ \E preliminary \in Preliminaries, ubo_scores \in ScoreMaps,
          synthesis_factors \in ExtraFactors :
          application' =
             [fn |-> "revise_risk_score", preliminary |-> preliminary,
              ubo_scores |-> ubo_scores, synthesis_factors |-> synthesis_factors,
              result |-> revise_risk_score(preliminary, ubo_scores, synthesis_factors),
              preliminary_after |-> AfterRevise(preliminary)]
    /\ UNCHANGED run_state

ScoreLevel ==
    /\ application.fn = "none"
    /\ \E score \in (0 - 5)..MaxScore :
          application' = [fn |-> "_score_to_risk_level", score |-> score,
                          result |-> _score_to_risk_level(score)]
    /\ UNCHANGED run_state

CalculateRiskScore ==
    /\ application.fn = "none"
    /\ \E c \in Clients :
          application' =
             [fn |-> "calculate_risk_score", client |-> c,
              result |-> IF IsIndividual(c) THEN calculate_individual_risk_score(c)
                         ELSE calculate_business_risk_score(c)]
    /\ UNCHANGED run_state

\* applicants handed to the regulation detector: every country field drawn
\* from a domestic, a grey-listed, a black-listed and a US value, lists of
\* at most MaxListed entries
IndividualApplicants ==
    {[client_type |-> "individual", full_name |-> "Applicant",
      citizenship |-> citizenship, country_of_residence |-> residence,
      country_of_birth |-> birth, address |-> address, us_person |-> us_person,
      us_tin |-> us_tin, tax_residencies |-> tax_residencies] :
        citizenship \in {"", "Canada", "Nigeria", "Iran", "United States"},
        residence \in {"", "Canada", "Nigeria", "Iran"},
        birth \in {"", "Canada", "Nigeria", "Iran"},
        address \in {<< >>, <<[country |-> "United States"]>>},
        us_person \in BOOLEAN,
        us_tin \in {"", "123-45-6789"},
        tax_residencies \in SeqsUpTo({"Canada", "Nigeria", "United States"}, MaxListed)}

ApplicantOwners ==
    {[full_name |-> "Owner", ownership_percentage |-> 50,
      citizenship |-> citizenship, country_of_residence |-> residence,
      country_of_birth |-> birth, us_person |-> us_person,
      tax_residencies |-> tax_residencies] :
        citizenship \in {"Canada", "Iran"},
        residence \in {"Canada", "Nigeria"},
        birth \in {"", "Canada", "Iran"},
        us_person \in BOOLEAN,
        tax_residencies \in {<< >>, <<"Nigeria">>}}

BusinessApplicants ==
    {[client_type |-> "business", legal_name |-> "Applicant Inc",
      incorporation_jurisdiction |-> incorporation,
      countries_of_operation |-> operations, us_nexus |-> us_nexus,
      beneficial_owners |-> owners] :
        incorporation \in {"", "Canada", "Iran"},
        operations \in SeqsUpTo({"Canada", "Nigeria", "United States"}, MaxListed),
        us_nexus \in BOOLEAN,
        owners \in SeqsUpTo(ApplicantOwners, MaxListed)}

DetectApplicableRegulations ==
    /\ application.fn = "none"
    /\ \E c \in IndividualApplicants \cup BusinessApplicants :
          application' = [fn |-> "detect_applicable_regulations", client |-> c,
                          result |-> detect_applicable_regulations(c)]
    /\ UNCHANGED run_state

\* clients handed to the planner: the modelled clients, and a business
\* declaring any list of at most MaxOwners beneficial owners
DeclaredOwners ==
    SeqsUpTo({Owner("Viktor", 51), Owner("Anna", 49), Owner("Li", 10)}, MaxOwners)
PlannerClients ==
    Clients \cup {[BusinessNoOwners EXCEPT !.beneficial_owners = owners] :
                     owners \in DeclaredOwners}

BuildInvestigationPlan ==
    /\ application.fn = "none"
    /\ \E c \in PlannerClients :
          application' = [fn |-> "build_investigation_plan", client |-> c,
                          result |-> build_investigation_plan(c)]
    /\ UNCHANGED run_state

IntakeInit ==
    /\ Init
    /\ world = [client |-> IndividualLow, findings |-> AdverseFindings(IndividualLow),
                outage |-> {}]

IntakeNext ==
    \/ Revise
    \/ ScoreLevel
    \/ CalculateRiskScore
    \/ BuildInvestigationPlan
    \/ DetectApplicableRegulations

IntakeSpec == IntakeInit /\ [][IntakeNext]_vars

\* ------------------------------------------------------------------------
\* Properties: risk score revision
\* ------------------------------------------------------------------------
Revised == application.fn = "revise_risk_score"
PositiveScore(ubo_scores) == \E n \in DOMAIN ubo_scores : ubo_scores[n] > 0

\* C15: revise with at least one positive related-party score appends exactly
\* one cascade factor worth floor(max(scores) * 0.5) points after the
\* preliminary factors (and before the extra factors), so that with no extra
\* factors the revised total is the preliminary total plus that amount; the
\* result has is_preliminary false, its score_history is the preliminary
\* history followed by exactly one new entry, and the preliminary assessment
\* passed in is unchanged.
C15_ReviseAddsHalfOfMaxScore ==
    (Revised /\ PositiveScore(application.ubo_scores)) =>
       LET pre == application.preliminary
           rev == application.result
           top == MaxOf({application.ubo_scores[n] : n \in DOMAIN application.ubo_scores})
           at == Len(pre.risk_factors) + 1
       IN /\ Len(rev.risk_factors) = at + Len(application.synthesis_factors)
          /\ SubSeq(rev.risk_factors, 1, at - 1) = pre.risk_factors
          /\ rev.risk_factors[at].category = "ubo_cascade"
          /\ 2 * rev.risk_factors[at].points <= top
          /\ top < 2 * (rev.risk_factors[at].points + 1)
          /\ SubSeq(rev.risk_factors, at + 1, Len(rev.risk_factors)) =
                application.synthesis_factors
          /\ application.synthesis_factors = << >> =>
                rev.total_score = pre.total_score + rev.risk_factors[at].points
          /\ top = 30 /\ application.synthesis_factors = << >> =>
                rev.total_score = pre.total_score + 15
          /\ ~rev.is_preliminary
          /\ Len(rev.score_history) = Len(pre.score_history) + 1
          /\ SubSeq(rev.score_history, 1, Len(pre.score_history)) = pre.score_history
          /\ application.preliminary_after = pre

\* revise(pre, {X: 30, Y: 0}, []) on the assessment of a modelled business client
C15_Witness ==
    /\ Revised
    /\ application.preliminary = calculate_business_risk_score(BusinessTwoOwners)
    /\ application.ubo_scores = [n \in RelatedParties |-> IF n = "X" THEN 30 ELSE 0]
    /\ application.synthesis_factors = << >>
    /\ application.result.total_score = application.preliminary.total_score + 15

LevelRank(level) ==
    CASE level = "LOW" -> 1 [] level = "MEDIUM" -> 2 [] level = "HIGH" -> 3
      [] level = "CRITICAL" -> 4

\* C16: for every preliminary assessment, every map of nonnegative
\* related-party scores and every list of extra factors, the total_score
\* returned by revise is at least the preliminary total_score, and the
\* risk_level returned is never lower than the preliminary risk_level.
C16_ReviseNeverLowersScore ==
    (Revised /\ \A n \in DOMAIN application.ubo_scores : application.ubo_scores[n] >= 0) =>
       /\ application.result.total_score >= application.preliminary.total_score
       /\ LevelRank(application.result.risk_level.v) >=
             LevelRank(application.preliminary.risk_level.v)

\* ------------------------------------------------------------------------
\* Properties: risk level breakpoints
\* ------------------------------------------------------------------------
\* C17: for every integer total_score the risk_level of every assessment the
\* scoring and revision functions return is LOW when total_score <= 15, MEDIUM
\* when 16 <= total_score <= 35, HIGH when 36 <= total_score <= 60 and CRITICAL
\* when total_score >= 61; it depends on total_score alone and never decreases
\* as total_score grows.
C17_RiskLevelBreakpoints ==
    LET Banded(score, level) ==
           /\ score <= 15 => level = "LOW"
           /\ (16 <= score /\ score <= 35) => level = "MEDIUM"
           /\ (36 <= score /\ score <= 60) => level = "HIGH"
           /\ score >= 61 => level = "CRITICAL"
    IN /\ application.fn = "_score_to_risk_level" =>
             /\ Banded(application.score, application.result)
             /\ LevelRank(application.result) <=
                   LevelRank(_score_to_risk_level(application.score + 1))
       /\ application.fn \in {"revise_risk_score", "calculate_risk_score"} =>
             Banded(application.result.total_score, application.result.risk_level.v)

\* the level function applied at a breakpoint
C17_Witness ==
    /\ application.fn = "_score_to_risk_level"
    /\ application.score = 61
    /\ application.result = "CRITICAL"

\* ------------------------------------------------------------------------
\* Properties: preliminary and revised assessments in the pipeline
\* ------------------------------------------------------------------------
\* C18: an assessment has is_preliminary=false exactly when a revision pass
\* has executed on it: the assessment of the plan, produced by the scoring
\* entry points, is preliminary, and once Synthesis has completed the
\* assessment attached to the synthesis output is non-preliminary, for
\* Individual and Business clients alike.
C18_SynthesisAttachesRevisedAssessment ==
    /\ plan.preliminary_risk.is_preliminary
    /\ (pc = "review" /\ IsSet(synthesis) /\ IsSet(synthesis.revised_risk_assessment)) =>
          ~synthesis.revised_risk_assessment.is_preliminary

\* ------------------------------------------------------------------------
\* Properties: the cascade decision of the planner
\* ------------------------------------------------------------------------
\* C19: for every client the plan's cascade flag is true exactly when the
\* client is a Business with one or more declared beneficial owners; then
\* the cascade subjects are exactly the owners' names in declaration order,
\* and otherwise the flag is false and the subjects are empty.
C19_CascadeOnlyForBusinessWithOwners ==
    application.fn = "build_investigation_plan" =>
        LET planned == application.client
            made == application.result
            with_owners == /\ planned.client_type = "business"
                           /\ Len(planned.beneficial_owners) >= 1
        IN  /\ made.ubo_cascade_needed <=> with_owners
            /\ with_owners =>
                  /\ Len(made.ubo_names) = Len(planned.beneficial_owners)
                  /\ \A k \in 1..Len(planned.beneficial_owners) :
                        made.ubo_names[k] = planned.beneficial_owners[k].full_name
            /\ ~with_owners => made.ubo_names = << >>

\* a business declaring two different owners has been planned
C19_Witness ==
    /\ application.fn = "build_investigation_plan"
    /\ application.client.client_type = "business"
    /\ Len(application.client.beneficial_owners) = 2
    /\ application.client.beneficial_owners[1] # application.client.beneficial_owners[2]
    /\ application.result.ubo_cascade_needed
    /\ Len(application.result.ubo_names) = 2

\* ------------------------------------------------------------------------
\* Properties: the regulation list
\* ------------------------------------------------------------------------
\* C20: the regulation list of every client contains FINTRAC and CIRO, and
\* it contains EDD whenever a FATF grey- or black-listed jurisdiction is in
\* any country field: citizenship, residence, birth or tax residency of an
\* Individual; incorporation jurisdiction or countries of operation of a
\* Business; citizenship, residence or birth country of any beneficial owner.
C20_RegulationsCoverListedJurisdictions ==
    application.fn = "detect_applicable_regulations" =>
        LET applicant == application.client
            regulations == {application.result[k] : k \in 1..Len(application.result)}
            Elements(s) == {s[k] : k \in 1..Len(s)}
            OwnerFields(o) == {o.citizenship, o.country_of_residence, o.country_of_birth}
            country_fields ==
                IF applicant.client_type = "individual"
                THEN {applicant.citizenship, applicant.country_of_residence,
                      applicant.country_of_birth}
                     \cup Elements(applicant.tax_residencies)
                ELSE {applicant.incorporation_jurisdiction}
                     \cup Elements(applicant.countries_of_operation)
                     \cup UNION {OwnerFields(o) : o \in Elements(applicant.beneficial_owners)}
        IN  /\ "FINTRAC" \in regulations
            /\ "CIRO" \in regulations
            /\ (country_fields \cap (FATF_GREY_LIST \cup FATF_BLACK_LIST) # {}) =>
                  "EDD" \in regulations

\* ------------------------------------------------------------------------
\* Properties: the cascade screening of beneficial owners
\* ------------------------------------------------------------------------
\* the records of the store that come from the screening of a cascade
\* subject: in a business run the individual-screening agents are called by
\* the cascade only
CascadeAgents == {UboScreenings[n].agent : n \in DOMAIN UboScreenings}
CascadeRecords ==
    {n \in DOMAIN evidence_store :
        IsBusiness(client) /\ evidence_store[n].source_name \in CascadeAgents}

\* C21: when cascade screening is required, every cascade subject is run
\* through the three individual screenings independently: a failing
\* screening prevents neither the subject's other screenings nor those of
\* the other subjects; after Investigation the cascade mapping holds one
\* entry per subject under the subject's name; and every Evidence Store
\* record of a subject's screening carries the context naming its role.
C21_CascadeScreensEverySubject ==
    /\ (pc \in {"utilities", "investigated"} /\ plan.ubo_cascade_needed) =>
          /\ DOMAIN investigation.ubo_screening =
                {plan.ubo_names[n] : n \in DOMAIN plan.ubo_names}
          /\ \A n \in DOMAIN client.beneficial_owners, s \in DOMAIN UboScreenings :
                LET ubo == client.beneficial_owners[n]
                    screening == UboScreenings[s]
                    stored == investigation.ubo_screening[ubo.full_name]
                IN /\ \E c \in DOMAIN calls :
                         calls[c] = Call("cascade", screening.agent, ubo.full_name)
                   /\ screening.key \in DOMAIN stored <=> ~Raises(screening.agent, world)
                   /\ ~Raises(screening.agent, world) =>
                         \E r \in CascadeRecords :
                            /\ evidence_store[r].source_name = screening.agent
                            /\ evidence_store[r].entity_screened = ubo.full_name
    /\ \A r \in CascadeRecords :
          \E n \in DOMAIN client.beneficial_owners :
             /\ evidence_store[r].entity_screened = client.beneficial_owners[n].full_name
             /\ evidence_store[r].entity_context = UboContext(client.beneficial_owners[n])

\* two owners have been screened while one of the three screenings was down
C21_Witness ==
    /\ pc = "investigated"
    /\ IsBusiness(client)
    /\ Len(client.beneficial_owners) = 2
    /\ \E s \in DOMAIN UboScreenings : Raises(UboScreenings[s].agent, world)
    /\ \A n \in DOMAIN client.beneficial_owners :
          Cardinality(DOMAIN investigation.ubo_screening[client.beneficial_owners[n].full_name]) = 2
    /\ Cardinality(CascadeRecords) = 4

\* ------------------------------------------------------------------------
\* Review intelligence: critical discussion points
\* ------------------------------------------------------------------------
severity_order(severity) ==
    CASE severity = "CRITICAL" -> 0
      [] severity = "HIGH" -> 1
      [] severity = "MEDIUM" -> 2
      [] severity = "ADVISORY" -> 3
      [] OTHER -> 99

\* f"{n:03d}" as its sequence of decimal digits
RECURSIVE DecimalDigits(_)
DecimalDigits(n) == IF n < 10 THEN <<n>> ELSE Append(DecimalDigits(n \div 10), n % 10)
ZeroPadded3(n) ==
    LET digits == DecimalDigits(n)
    IN IF Len(digits) >= 3 THEN digits
       ELSE [k \in 1..(3 - Len(digits)) |-> 0] \o digits

\* str < str on two texts of digits
TextLess(a, b) ==
    \/ \E k \in 1..Len(a) :
          /\ k <= Len(b)
          /\ \A j \in 1..(k - 1) : a[j] = b[j]
          /\ a[k] < b[k]
    \/ /\ Len(a) < Len(b)
       /\ \A j \in 1..Len(a) : a[j] = b[j]

\* the _add closure: point_counter += 1 and one more point
AddPoint(points, title, severity, evidence_ids, source_agents) ==
    Append(points,
           [point_id |-> [prefix |-> "CDP", digits |-> ZeroPadded3(Len(points) + 1)],
            title |-> title, severity |-> severity,
            evidence_ids |-> evidence_ids, source_agents |-> source_agents])

\* the three tests made on one record of the evidence store
ScanRecord(points, er) ==
    LET eid == Get(er, "evidence_id", "")
        disp == Get(er, "disposition", "")
        conf == Get(er, "confidence", "MEDIUM")
        ev_level == Get(er, "evidence_level", "U")
        source == Get(er, "source_name", "")
        matched ==
            IF disp \in {"POTENTIAL_MATCH", "CONFIRMED_MATCH"} /\ conf \in {"LOW", "MEDIUM"}
            THEN AddPoint(points, "Match with low confidence", "CRITICAL", <<eid>>, <<source>>)
            ELSE points
        weak ==
            IF ev_level \in {"I", "U"} /\ disp \notin {"CLEAR", "FALSE_POSITIVE"}
            THEN AddPoint(matched, "Weak evidence for non-clear disposition",
                          IF disp # "PENDING_REVIEW" THEN "HIGH" ELSE "MEDIUM",
                          <<eid>>, <<source>>)
            ELSE matched
    IN  IF disp = "CLEAR" /\ conf = "LOW"
        THEN AddPoint(weak, "Low-confidence clearance", "ADVISORY", <<eid>>, <<source>>)
        ELSE weak

RECURSIVE ScanEvidence(_, _)
ScanEvidence(points, store) ==
    IF store = << >> THEN points
    ELSE ScanEvidence(ScanRecord(points, Head(store)), Tail(store))

\* decision points whose confidence (in hundredths) is below 0.7
RECURSIVE ScanDecisionPoints(_, _)
ScanDecisionPoints(points, decision_points) ==
    IF decision_points = << >> THEN points
    ELSE ScanDecisionPoints(
            IF Head(decision_points).confidence < 70
            THEN AddPoint(points, "Low-confidence decision", "CRITICAL",
                          IF Head(decision_points).counter_argument.evidence_id # ""
                          THEN <<Head(decision_points).counter_argument.evidence_id>>
                          ELSE << >>,
                          << >>)
            ELSE points,
            Tail(decision_points))

\* one HIGH point per entry of items_requiring_review or risk_elevations
RECURSIVE ScanFlagged(_, _, _)
ScanFlagged(points, title, entries) ==
    IF entries = << >> THEN points
    ELSE ScanFlagged(AddPoint(points, title, "HIGH", << >>, <<"KYCSynthesis">>),
                     title, Tail(entries))

\* the points raised, in the order they are added; synth is a synthesis
\* output or None
RaisedPoints(store, synth) ==
    LET scanned == ScanEvidence(<< >>, store)
    IN IF ~IsSet(synth) THEN scanned
       ELSE ScanFlagged(
               ScanFlagged(ScanDecisionPoints(scanned, synth.decision_points),
                           "Synthesis flagged", synth.items_requiring_review),
               "Risk elevation", synth.risk_elevations)

\* the key of points.sort: (severity_order.get(p.severity, 99), p.point_id)
PointBefore(p, q) ==
    \/ severity_order(p.severity) < severity_order(q.severity)
    \/ /\ severity_order(p.severity) = severity_order(q.severity)
       /\ TextLess(p.point_id.digits, q.point_id.digits)

\* list.sort is stable: a point goes after the sorted points that are not
\* after it
RECURSIVE InsertPoint(_, _)
InsertPoint(sorted, p) ==
    IF sorted = << >> THEN <<p>>
    ELSE IF PointBefore(p, Head(sorted)) THEN <<p>> \o sorted
    ELSE <<Head(sorted)>> \o InsertPoint(Tail(sorted), p)

RECURSIVE SortPoints(_)
SortPoints(points) ==
    IF points = << >> THEN << >>
    ELSE InsertPoint(SortPoints(SubSeq(points, 1, Len(points) - 1)), points[Len(points)])

\* points[:15]
First15(points) == SubSeq(points, 1, IF Len(points) < 15 THEN Len(points) ELSE 15)

\* a pass that cuts the list to 15 before it sorts
_extract_discussion_points_cut_first(store, synth) ==
    SortPoints(First15(RaisedPoints(store, synth)))

_extract_discussion_points(store, synth) ==
    First15(SortPoints(RaisedPoints(store, synth)))

\* ------------------------------------------------------------------------
\* Review intelligence functions applied on their own
\* ------------------------------------------------------------------------
\* evidence records by what the scan reads of them
StoredRecord(disposition, conf, level) ==
    [disposition |-> disposition, confidence |-> conf, evidence_level |-> level,
     source_name |-> "IndividualSanctions", claim |-> "finding"]
RecordKinds ==
    {StoredRecord("POTENTIAL_MATCH", "MEDIUM", "I"),
     StoredRecord("PENDING_REVIEW", "HIGH", "U"),
     StoredRecord("CLEAR", "LOW", "S"),
     StoredRecord("CLEAR", "HIGH", "V"),
     StoredRecord("CONFIRMED_MATCH", "HIGH", "I")}

\* an evidence store of n records: a pattern of record kinds repeated, the
\* record at position k having evidence_id k
PatternStore(pattern, n) ==
    [k \in 1..n |->
        [key \in DOMAIN pattern[1] \cup {"evidence_id"} |->
            IF key = "evidence_id" THEN ToString(k)
            ELSE pattern[((k - 1) % Len(pattern)) + 1][key]]]
EvidenceStores ==
    {PatternStore(pattern, n) :
        pattern \in SeqsUpTo(RecordKinds, MaxPattern) \ {<< >>}, n \in 0..MaxRecords}

DecisionPoint(conf, evidence_id) ==
    [cls |-> "DecisionPoint", confidence |-> conf,
     counter_argument |-> [cls |-> "CounterArgument", evidence_id |-> evidence_id]]
SynthesisOutput(decision_points, items, elevations) ==
    [cls |-> "KYCSynthesisOutput", decision_points |-> decision_points,
     items_requiring_review |-> items, risk_elevations |-> elevations,
     contradictions |-> << >>]
SynthesisOutputs ==
    {None,
     SynthesisOutput(<< >>, << >>, << >>),
     SynthesisOutput(<<DecisionPoint(65, "1"), DecisionPoint(90, "")>>, <<"item">>, << >>),
     SynthesisOutput(<<DecisionPoint(69, "")>>, <<"item", "item">>,
                     <<[factor |-> "factor", reason |-> "reason"]>>)}

ExtractDiscussionPoints ==
    /\ application.fn = "none"
    /\ \E store \in EvidenceStores, synth \in SynthesisOutputs :
          application' = [fn |-> "_extract_discussion_points",
                          raised |-> RaisedPoints(store, synth),
                          result |-> _extract_discussion_points(store, synth)]
    /\ UNCHANGED run_state

\* ------------------------------------------------------------------------
\* Review intelligence: contradictions
\* ------------------------------------------------------------------------
\* a float, in hundredths
Float(hundredths) == [t |-> "float", v |-> hundredths]

\* the _add closure of _detect_contradictions
AddContradiction(contradictions, finding_a, finding_b, agent_a, agent_b, severity) ==
    Append(contradictions,
           [contradiction_id |->
               [prefix |-> "CTR", digits |-> ZeroPadded3(Len(contradictions) + 1)],
            finding_a |-> finding_a, finding_b |-> finding_b,
            agent_a |-> agent_a, agent_b |-> agent_b, severity |-> severity])

\* source 1: the contradictions the synthesis output lists
RECURSIVE SynthesisContradictions(_, _)
SynthesisContradictions(contradictions, listed) ==
    IF listed = << >> THEN contradictions
    ELSE SynthesisContradictions(
            AddContradiction(contradictions,
                Get(Head(listed), "finding_1", Get(Head(listed), "finding_a", "Unknown")),
                Get(Head(listed), "finding_2", Get(Head(listed), "finding_b", "Unknown")),
                Get(Head(listed), "agent_1", Get(Head(listed), "agent_a", "Synthesis")),
                Get(Head(listed), "agent_2", Get(Head(listed), "agent_b", "Synthesis")),
                "HIGH"),
            Tail(listed))

\* the lookups made on the investigation results
SanctionsOf(results) ==
    IF IsSet(results.individual_sanctions) THEN results.individual_sanctions
    ELSE results.entity_sanctions
sanctions_disp(results) ==
    IF IsSet(SanctionsOf(results)) THEN SanctionsOf(results).disposition ELSE "None"
sanctions_matches(results) ==
    IF IsSet(SanctionsOf(results)) THEN SanctionsOf(results).matches ELSE << >>
sanctions_agent(results) ==
    IF IsSet(results.individual_sanctions) THEN "IndividualSanctions" ELSE "EntitySanctions"
adverse_categories(results) ==
    IF IsSet(results.individual_adverse_media) THEN results.individual_adverse_media.categories
    ELSE IF IsSet(results.business_adverse_media)
         THEN results.business_adverse_media.categories
    ELSE << >>
media_agent(results) ==
    IF IsSet(results.individual_adverse_media) THEN "IndividualAdverseMedia"
    ELSE "BusinessAdverseMedia"

\* score = match.get("score", 0); isinstance(score, (int, float)) and score > 0.85
HighScore(match) ==
    LET score == Get(match, "score", Float(0))
    IN score.t = "float" /\ score.v > 85

\* the matches the loop of the second rule visits: it breaks after its
\* first alert
RECURSIVE FalsePositiveRule(_, _, _)
FalsePositiveRule(contradictions, results, matches) ==
    IF matches = << >> THEN contradictions
    ELSE IF HighScore(Head(matches))
         THEN AddContradiction(contradictions,
                  [text |-> "Sanctions match scored", score |-> Head(matches).score.v],
                  "Disposition marked as FALSE_POSITIVE",
                  sanctions_agent(results), sanctions_agent(results), "HIGH")
    ELSE FalsePositiveRule(contradictions, results, Tail(matches))

\* a rule with no break: one alert per qualifying match
RECURSIVE FalsePositiveRuleEveryMatch(_, _, _)
FalsePositiveRuleEveryMatch(contradictions, results, matches) ==
    IF matches = << >> THEN contradictions
    ELSE FalsePositiveRuleEveryMatch(
            IF HighScore(Head(matches))
            THEN AddContradiction(contradictions,
                     [text |-> "Sanctions match scored", score |-> Head(matches).score.v],
                     "Disposition marked as FALSE_POSITIVE",
                     sanctions_agent(results), sanctions_agent(results), "HIGH")
            ELSE contradictions,
            results, Tail(matches))

sanctions_false_positive_rule_every_match(contradictions, results) ==
    IF sanctions_disp(results) = "FALSE_POSITIVE"
    THEN FalsePositiveRuleEveryMatch(contradictions, results, sanctions_matches(results))
    ELSE contradictions

sanctions_false_positive_rule(contradictions, results) ==
    IF sanctions_disp(results) = "FALSE_POSITIVE"
    THEN FalsePositiveRule(contradictions, results, sanctions_matches(results))
    ELSE contradictions

\* any(kw in c.lower() for kw in political_keywords) on the modelled categories
IsPolitical(category) == category \in {"corruption", "political_exposure", "bribery"}

RECURSIVE DiscrepancyRule(_, _)
DiscrepancyRule(contradictions, discrepancies) ==
    IF discrepancies = << >> THEN contradictions
    ELSE DiscrepancyRule(
            AddContradiction(contradictions, "Entity verification discrepancy",
                             "Other agent findings on same entity",
                             "EntityVerification", "Multiple", "MEDIUM"),
            Tail(discrepancies))

_detect_contradictions(store, synth, results) ==
    LET categories == adverse_categories(results)
        from_synthesis ==
            IF IsSet(synth) THEN SynthesisContradictions(<< >>, synth.contradictions)
            ELSE << >>
        evasion ==
            IF /\ sanctions_disp(results) = "CLEAR"
               /\ \E k \in DOMAIN categories : categories[k] = "sanctions_evasion"
            THEN AddContradiction(from_synthesis, "Sanctions screening: CLEAR",
                     "Adverse media reports sanctions evasion activity",
                     sanctions_agent(results), media_agent(results), "CRITICAL")
            ELSE from_synthesis
        false_positive == sanctions_false_positive_rule(evasion, results)
        political ==
            IF /\ IsSet(results.pep_classification)
               /\ results.pep_classification.detected_level = "NOT_PEP"
               /\ \E k \in DOMAIN categories : IsPolitical(categories[k])
            THEN AddContradiction(false_positive, "PEP classification: NOT_PEP",
                     "Adverse media references political activity",
                     "PEPDetection", media_agent(results), "HIGH")
            ELSE false_positive
    IN  IF IsSet(results.entity_verification)
        THEN DiscrepancyRule(political, results.entity_verification.discrepancies)
        ELSE political

\* investigation results by what the rules read of them
MatchEntries ==
    {[list_name |-> "OFAC"], [list_name |-> "OFAC", score |-> Str("0.90")]}
    \cup {[list_name |-> "OFAC", score |-> Float(h)] : h \in {85, 90, 95}}
ScreenedSanctions ==
    {[cls |-> "SanctionsResult", disposition |-> d, matches |-> m] :
        d \in {"CLEAR", "FALSE_POSITIVE", "POTENTIAL_MATCH"},
        m \in SeqsUpTo(MatchEntries, MaxMatches)}
ScreenedMedia ==
    {[cls |-> "AdverseMediaResult", categories |-> c] :
        c \in {<< >>, <<"sanctions_evasion">>, <<"fraud", "corruption">>}}
ScreenedInvestigations ==
    {[InvestigationResults EXCEPT
         ![fields.sanctions] = sanctions,
         ![fields.media] = media,
         !.pep_classification = pep,
         !.entity_verification = verification] :
        fields \in {[sanctions |-> "individual_sanctions",
                     media |-> "individual_adverse_media"],
                    [sanctions |-> "entity_sanctions",
                     media |-> "business_adverse_media"]},
        sanctions \in ScreenedSanctions \cup {None},
        media \in ScreenedMedia,
        pep \in {None, [cls |-> "PEPClassification", detected_level |-> "NOT_PEP"]},
        verification \in {None, [cls |-> "EntityVerification",
                                 discrepancies |-> <<"name differs">>]}}
ListedContradictions ==
    {<< >>, <<[finding_1 |-> "a", finding_2 |-> "b", agent_1 |-> "IndividualSanctions"]>>}

DetectContradictions ==
    /\ application.fn = "none"
    /\ \E results \in ScreenedInvestigations, listed \in ListedContradictions :
          application' =
             [fn |-> "_detect_contradictions", investigation |-> results,
              result |-> _detect_contradictions(
                            << >>,
                            [SynthesisOutput(<< >>, << >>, << >>) EXCEPT
                                !.contradictions = listed],
                            results)]
    /\ UNCHANGED run_state

\* ------------------------------------------------------------------------
\* Review intelligence: confidence degradation
\* ------------------------------------------------------------------------
\* level = er.get("evidence_level", "U"); a level that is no key of counts
\* is counted under "U"
CountedLevel(er) ==
    LET level == Get(er, "evidence_level", "U")
    IN IF level \in {"V", "S", "I", "U"} THEN level ELSE "U"

level_counts(store) ==
    [level \in {"V", "S", "I", "U"} |->
        Cardinality({k \in DOMAIN store : CountedLevel(store[k]) = level})]

\* a percentage cut to its tenth instead of rounded
round_pct_truncated(count, total) == (1000 * count) \div total

\* round(count / total * 100, 1), in tenths of a percent: the nearest tenth,
\* an exact tie going to the even one (what the float arithmetic gives for
\* every total below 80)
round_pct(count, total) ==
    LET q == (1000 * count) \div total
        r == (1000 * count) % total
    IN IF 2 * r < total THEN q
       ELSE IF 2 * r > total THEN q + 1
       ELSE IF q % 2 = 0 THEN q ELSE q + 1

\* a grading whose thresholds are exclusive
confidence_grade_exclusive(strong, total) ==
    IF 100 * strong > 70 * total THEN "A"
    ELSE IF 100 * strong > 50 * total THEN "B"
    ELSE IF 100 * strong > 30 * total THEN "C"
    ELSE IF 100 * strong > 15 * total THEN "D"
    ELSE "F"

\* strong_pct = (V + S) / total * 100 against the thresholds 70, 50, 30, 15
\* (the float comparison agrees with the exact one for every total below 400)
confidence_grade(strong, total) ==
    IF 100 * strong >= 70 * total THEN "A"
    ELSE IF 100 * strong >= 50 * total THEN "B"
    ELSE IF 100 * strong >= 30 * total THEN "C"
    ELSE IF 100 * strong >= 15 * total THEN "D"
    ELSE "F"

\* agent_iu: the agents of the inferred/unknown records in order of first
\* appearance, each with its number of such records
RECURSIVE AgentIu(_, _)
AgentIu(tally, store) ==
    IF store = << >> THEN tally
    ELSE LET er == Head(store)
             agent == Get(er, "source_name", "unknown")
             seen == {k \in DOMAIN tally : tally[k].agent = agent}
         IN AgentIu(
               IF Get(er, "evidence_level", "U") \notin {"I", "U"} THEN tally
               ELSE IF seen = {} THEN Append(tally, [agent |-> agent, count |-> 1])
               ELSE [k \in DOMAIN tally |->
                        IF k \in seen THEN [tally[k] EXCEPT !.count = @ + 1]
                        ELSE tally[k]],
               Tail(store))

\* sorted(agent_iu.items(), key=lambda x: -x[1]): stable, largest count first
RECURSIVE InsertByCount(_, _)
InsertByCount(sorted, entry) ==
    IF sorted = << >> THEN <<entry>>
    ELSE IF entry.count > Head(sorted).count THEN <<entry>> \o sorted
    ELSE <<Head(sorted)>> \o InsertByCount(Tail(sorted), entry)
RECURSIVE SortByCount(_)
SortByCount(tally) ==
    IF tally = << >> THEN << >>
    ELSE InsertByCount(SortByCount(SubSeq(tally, 1, Len(tally) - 1)), tally[Len(tally)])

FollowUpActions(store, grade) ==
    LET ranked == SortByCount(AgentIu(<< >>, store))
    IN IF grade \notin {"C", "D", "F"} THEN << >>
       ELSE SubSeq(ranked, 1, IF Len(ranked) < 3 THEN Len(ranked) ELSE 3)
            \o (IF grade \in {"D", "F"}
                THEN <<"Request primary documentation from client to verify key claims">>
                ELSE << >>)
            \o (IF grade = "F"
                THEN <<"Consider escalating">>
                ELSE << >>)

ConfidenceDegradationAlert ==
    [cls |-> "ConfidenceDegradationAlert", overall_confidence_grade |-> "F",
     verified_pct |-> 0, sourced_pct |-> 0, inferred_pct |-> 0, unknown_pct |-> 0,
     degraded |-> FALSE, follow_up_actions |-> << >>]

_assess_confidence(store) ==
    LET counts == level_counts(store)
        total == Len(store)
        grade == confidence_grade(counts["V"] + counts["S"], total)
    IN IF total = 0
       THEN [ConfidenceDegradationAlert EXCEPT
                !.degraded = TRUE,
                !.follow_up_actions = <<"No evidence records found">>]
       ELSE [ConfidenceDegradationAlert EXCEPT
                !.overall_confidence_grade = grade,
                !.verified_pct = round_pct(counts["V"], total),
                !.sourced_pct = round_pct(counts["S"], total),
                !.inferred_pct = round_pct(counts["I"], total),
                !.unknown_pct = round_pct(counts["U"], total),
                !.degraded = grade \in {"C", "D", "F"},
                !.follow_up_actions = FollowUpActions(store, grade)]

\* an evidence store with given numbers of verified, sourced, inferred and
\* unknown records, followed by the records of odd, which have no level or
\* one that is no evidence class
Levelled(level, agent, n) ==
    [k \in 1..n |-> [evidence_level |-> level, source_name |-> agent]]
OddRecords ==
    {<< >>, <<[source_name |-> "id_verification"]>>,
     <<[evidence_level |-> "X", source_name |-> "suitability"]>>}
GradedStores ==
    {Levelled("V", "EntityVerification", v) \o Levelled("S", "IndividualSanctions", s)
        \o Levelled("I", "PEPDetection", inferred) \o Levelled("U", "IndividualAdverseMedia", u)
        \o odd :
        v \in 0..MaxPerClass, s \in 0..MaxPerClass, inferred \in 0..MaxPerClass,
        u \in 0..MaxPerClass, odd \in OddRecords}

AssessConfidence ==
    /\ application.fn = "none"
    /\ \E store \in GradedStores :
          application' = [fn |-> "_assess_confidence", evidence_store |-> store,
                          result |-> _assess_confidence(store)]
    /\ UNCHANGED run_state

\* ------------------------------------------------------------------------
\* Review intelligence: batch analytics over case_signatures.jsonl
\* ------------------------------------------------------------------------
\* the default of _compute_batch_analytics(analytics_dir, window_days=7)
window_days == 7

\* the timestamp json.dumps(default=str) wrote for datetime.now(): a naive
\* ISO string, kept by its age in whole days at the time the log is read
Timestamp(age) == [t |-> "str", age |-> age]
\* whether datetime.fromisoformat accepts the string
IsIso(ts) == "age" \in DOMAIN ts

BatchCaseSignature(client_id, timestamp, risk, jurisdictions, industries, client_type, regulations, grade, contradictions_count) ==
    [client_id |-> client_id,
     timestamp |-> timestamp,
     risk_level |-> risk.risk_level.v,
     risk_score |-> risk.total_score,
     jurisdictions |-> jurisdictions,
     industries |-> industries,
     client_type |-> client_type,
     regulations_triggered |-> regulations,
     confidence_grade |-> grade,
     contradictions_count |-> contradictions_count]

\* industries.append(factor.source) for the factors of category "industry"
RECURSIVE IndustryFactorSources(_)
IndustryFactorSources(factors) ==
    IF factors = << >> THEN << >>
    ELSE (IF Head(factors).category = "industry" THEN <<Head(factors).source>> ELSE << >>)
         \o IndustryFactorSources(Tail(factors))

\* the log is the sequence of the lines of the file; the line appended is the
\* dumped signature, its timestamp the moment of the call
record_case_signature(client_id, planned, synth, results, grade, contradictions_count, log) ==
    LET jurisdictions ==
            IF IsSet(results.jurisdiction_risk)
            THEN results.jurisdiction_risk.jurisdictions_assessed ELSE << >>
        industries ==
            IF planned.client_type.v = "business"
            THEN IndustryFactorSources(planned.preliminary_risk.risk_factors)
            ELSE << >>
        risk == IF IsSet(synth.revised_risk_assessment)
                THEN synth.revised_risk_assessment ELSE planned.preliminary_risk
    IN Append(log, BatchCaseSignature(client_id, Timestamp(0), risk, jurisdictions,
                                      industries, planned.client_type.v,
                                      planned.applicable_regulations, grade,
                                      contradictions_count))

BatchPattern(pattern_type, description, count, case_ids, significance) ==
    [cls |-> "BatchPattern", pattern_type |-> pattern_type,
     description |-> description, count |-> count, case_ids |-> case_ids,
     significance |-> significance]

BatchAnalytics(total_cases_in_window, patterns) ==
    [cls |-> "BatchAnalytics", total_cases_in_window |-> total_cases_in_window,
     patterns |-> patterns]

\* sig_time >= cutoff; a timestamp fromisoformat rejects reads as now
InWindow(sig) ==
    ~IsIso(sig.timestamp) \/ sig.timestamp.age <= window_days

\* prev_cutoff <= sig_time < cutoff; a rejected timestamp is skipped
InPreviousWindow(sig) ==
    /\ IsIso(sig.timestamp)
    /\ sig.timestamp.age > window_days
    /\ sig.timestamp.age <= 2 * window_days

\* str.upper() on the jurisdiction names the modelled logs use
Upper(s) ==
    CASE s \in {"Canada", "canada", "CANADA"} -> "CANADA"
      [] s \in {"CA", "ca"} -> "CA"
      [] OTHER -> s

\* the (key, client_id) pairs the two nested loops of a counter visit
RECURSIVE Keyed(_, _)
Keyed(keys, client_id) ==
    IF keys = << >> THEN << >>
    ELSE <<[key |-> Head(keys), client_id |-> client_id]>> \o Keyed(Tail(keys), client_id)
RECURSIVE Listings(_, _)
Listings(signatures, field) ==
    IF signatures = << >> THEN << >>
    ELSE Keyed(Get(Head(signatures), field, << >>), Get(Head(signatures), "client_id", ""))
         \o Listings(Tail(signatures), field)

\* counter.setdefault(key, []).append(client_id): a dict in insertion order
RECURSIVE Counter(_, _)
Counter(tally, listings) ==
    IF listings = << >> THEN tally
    ELSE LET l == Head(listings)
             seen == {k \in DOMAIN tally : tally[k].key = l.key}
         IN Counter(
               IF seen = {} THEN Append(tally, [key |-> l.key, case_ids |-> <<l.client_id>>])
               ELSE [k \in DOMAIN tally |->
                        IF k \in seen
                        THEN [tally[k] EXCEPT !.case_ids = Append(@, l.client_id)]
                        ELSE tally[k]],
               Tail(listings))

\* one pattern for every key of the counter with at least `least` case ids
ClusterPatterns(tally, least, pattern_type, phrase, significance) ==
    LET hits == SelectSeq(tally, LAMBDA e : Len(e.case_ids) >= least)
    IN [k \in DOMAIN hits |->
           BatchPattern(pattern_type,
                        ToString(Len(hits[k].case_ids)) \o phrase \o hits[k].key,
                        Len(hits[k].case_ids), hits[k].case_ids, significance)]

JurisdictionCounter(signatures) ==
    Counter(<< >>, SelectSeq(Listings(signatures, "jurisdictions"),
                             LAMBDA l : Upper(l.key) \notin {"CANADA", "CA"}))

jurisdiction_clusters(signatures) ==
    ClusterPatterns(JurisdictionCounter(signatures), 3, "jurisdiction_cluster",
        " cases involve jurisdiction: ",
        "Multiple clients from same high-risk jurisdiction may indicate coordinated activity")

industry_clusters(signatures) ==
    ClusterPatterns(Counter(<< >>, Listings(signatures, "industries")), 3,
        "industry_cluster", " cases in industry: ",
        "Cluster of clients in same industry may warrant sector-level review")

regulation_surges(signatures) ==
    ClusterPatterns(Counter(<< >>, Listings(signatures, "regulations_triggered")), 5,
        "regulation_surge", " cases trigger regulation: ",
        "High volume of cases triggering same regulation may indicate systemic exposure")

RECURSIVE SumScores(_)
SumScores(signatures) ==
    IF signatures = << >> THEN 0
    ELSE Get(Head(signatures), "risk_score", 0) + SumScores(Tail(signatures))

RECURSIVE CaseIds(_)
CaseIds(signatures) ==
    IF signatures = << >> THEN << >>
    ELSE <<Get(Head(signatures), "client_id", "")>> \o CaseIds(Tail(signatures))

\* f"{num/den:.0f}" for a non-negative quotient: nearest integer, ties to even
Format0f(num, den) ==
    LET q == num \div den
        r == num % den
    IN ToString(IF 2 * r < den THEN q
                ELSE IF 2 * r > den THEN q + 1
                ELSE IF q % 2 = 0 THEN q ELSE q + 1)

\* current_avg > prev_avg * 1.25, the averages kept as sum / count
RiskRising(signatures, previous) ==
    100 * SumScores(signatures) * Len(previous)
        > 125 * SumScores(previous) * Len(signatures)

\* the description divides by prev_avg
RiskTrendRaises(signatures, previous) ==
    /\ previous # << >>
    /\ RiskRising(signatures, previous)
    /\ SumScores(previous) = 0

risk_trend(signatures, previous) ==
    LET cs == SumScores(signatures)
        cn == Len(signatures)
        ps == SumScores(previous)
        pn == Len(previous)
    IN IF previous = << >> \/ ~RiskRising(signatures, previous) THEN << >>
       ELSE <<BatchPattern("risk_trend",
                  "Average risk score increased from " \o Format0f(ps, pn)
                      \o " to " \o Format0f(cs, cn) \o " ("
                      \o Format0f(100 * (cs * pn - ps * cn), ps * cn) \o "% increase)",
                  cn, CaseIds(signatures),
                  "Rising average risk scores may indicate changing client mix or emerging threats")>>

ZeroDivisionError == [cls |-> "ZeroDivisionError", raised |-> TRUE]

\* a missing file and a file without lines both give the empty analytics
_compute_batch_analytics(log) ==
    LET signatures == SelectSeq(log, InWindow)
        previous == SelectSeq(log, InPreviousWindow)
    IN IF signatures = << >> THEN BatchAnalytics(0, << >>)
       ELSE IF RiskTrendRaises(signatures, previous) THEN ZeroDivisionError
       ELSE BatchAnalytics(Len(signatures),
                jurisdiction_clusters(signatures) \o industry_clusters(signatures)
                    \o regulation_surges(signatures) \o risk_trend(signatures, previous))

\* signatures of earlier cases: inside the window, in the window before it,
\* on the cut-off itself, older than both, and one whose timestamp does not parse
LoggedRisk(score) == [risk_level |-> Enum("RiskLevel", _score_to_risk_level(score)),
                      total_score |-> score]
LoggedCase(timestamp, jurisdictions, score) ==
    BatchCaseSignature("case", timestamp, LoggedRisk(score), jurisdictions, << >>,
                       "individual", <<"FINTRAC", "CIRO">>, "B", 0)
LoggedCases ==
    {LoggedCase(Timestamp(1), <<"Iran">>, 40),
     LoggedCase(Timestamp(1), <<"Iran", "Panama">>, 0),
     LoggedCase(Timestamp(1), <<"Canada", "ca">>, 0),
     LoggedCase(Timestamp(window_days), <<"Iran">>, 40),
     LoggedCase(Timestamp(window_days + 1), <<"Iran">>, 0),
     LoggedCase(Timestamp(window_days + 1), <<"Iran">>, 40),
     LoggedCase(Timestamp(2 * window_days + 1), <<"Iran">>, 0),
     LoggedCase(Str("last week"), <<"Iran">>, 40)}

\* every case of a log has its own client id
Numbered(cases) ==
    [k \in DOMAIN cases |-> [cases[k] EXCEPT !.client_id = "case-" \o ToString(k)]]

ComputeBatchAnalytics ==
    /\ application.fn = "none"
    /\ \E cases \in SeqsUpTo(LoggedCases, MaxCases) :
          application' = [fn |-> "_compute_batch_analytics",
                          clients |-> << >>,
                          log |-> Numbered(cases),
                          result |-> _compute_batch_analytics(Numbered(cases))]
    /\ UNCHANGED run_state

\* business applicants by industry, and what the jurisdiction agent assessed
IndustryClients ==
    {[client_type |-> "business", legal_name |-> legal_name, industry |-> industry,
      incorporation_jurisdiction |-> "Canada", countries_of_operation |-> <<"Canada">>,
      us_nexus |-> FALSE, third_party_determination |-> FALSE,
      beneficial_owners |-> << >>] :
        legal_name \in {"Applicant Inc"},
        industry \in {"import_export", "casino_gaming", "real_estate", "software"}}
AssessedJurisdictions ==
    {None, [cls |-> "JurisdictionRiskResult", jurisdictions_assessed |-> <<"Panama">>]}

\* one pipeline run reaching record_case_signature: the plan of intake with its
\* applicable_regulations, no revised assessment attached
RecordCaseSignature ==
    /\ application.fn \in {"none", "record_case_signature"}
    /\ LET recorded == IF application.fn = "none" THEN << >> ELSE application.clients
           log == IF application.fn = "none" THEN << >> ELSE application.log
       IN /\ Len(log) < MaxCases
          /\ \E c \in IndustryClients, assessed \in AssessedJurisdictions :
                LET applicant == [c EXCEPT !.legal_name =
                                      c.industry \o " " \o ToString(Len(log) + 1)]
                    planned == build_investigation_plan(applicant)
                                 @@ [applicable_regulations |->
                                        detect_applicable_regulations(applicant)]
                IN application' =
                      [fn |-> "record_case_signature",
                       clients |-> Append(recorded, applicant),
                       log |-> record_case_signature(
                                  planned.client_id, planned,
                                  [revised_risk_assessment |-> None],
                                  [jurisdiction_risk |-> assessed], "B", 0, log)]
    /\ UNCHANGED run_state

\* compute_review_intelligence reading the log the runs have written
AnalyseRecordedCases ==
    /\ application.fn = "record_case_signature"
    /\ application' = [fn |-> "_compute_batch_analytics",
                       clients |-> application.clients,
                       log |-> application.log,
                       result |-> _compute_batch_analytics(application.log)]
    /\ UNCHANGED run_state

\*INTELLIGENCE-ACTIONS
IntelligenceNext ==
    \/ ExtractDiscussionPoints
    \/ DetectContradictions
    \/ AssessConfidence
    \/ ComputeBatchAnalytics
    \/ RecordCaseSignature
    \/ AnalyseRecordedCases

IntelligenceSpec == IntakeInit /\ [][IntelligenceNext]_vars

\* ------------------------------------------------------------------------
\* Properties: critical discussion points
\* ------------------------------------------------------------------------
\* C22: for every Evidence Store and synthesis output the discussion-point
\* list is ordered by severity (CRITICAL, HIGH, MEDIUM, ADVISORY) and within
\* one severity by id; it has at most 15 entries, and when more than 15
\* points are raised it is the 15 highest-severity ones: no dropped point is
\* more severe than a kept one.
C22_DiscussionPointsSortedAndCapped ==
    application.fn = "_extract_discussion_points" =>
        LET kept == application.result
            raised == application.raised
            Points(s) == {s[k] : k \in DOMAIN s}
            Rank(p) == severity_order(p.severity)
        IN  /\ Points(kept) \subseteq Points(raised)
            /\ \A k \in 1..(Len(kept) - 1) :
                  \/ Rank(kept[k]) < Rank(kept[k + 1])
                  \/ /\ Rank(kept[k]) = Rank(kept[k + 1])
                     /\ TextLess(kept[k].point_id.digits, kept[k + 1].point_id.digits)
            /\ Len(kept) = (IF Len(raised) > 15 THEN 15 ELSE Len(raised))
            /\ \A dropped \in Points(raised) \ Points(kept), p \in Points(kept) :
                  Rank(dropped) >= Rank(p)

\* more than 15 points of different severities were raised, a severe one
\* after the fifteenth, and some were dropped
C22_Witness ==
    /\ application.fn = "_extract_discussion_points"
    /\ Len(application.raised) > 15
    /\ Len(application.result) = 15
    /\ \E k \in 16..Len(application.raised) : application.raised[k].severity = "CRITICAL"
    /\ \E k \in 1..15 : application.raised[k].severity = "ADVISORY"
    /\ \E k \in 1..15 : application.result[k].severity = "HIGH"

\* ------------------------------------------------------------------------
\* Properties: contradictions
\* ------------------------------------------------------------------------
\* C23: contradiction rule (ii) fires once per case: when the sanctions
\* disposition is FALSE_POSITIVE and one or more match entries score above
\* 0.85, exactly one HIGH contradiction comes from the rule, naming the
\* sanctions source as both of its sides, however many matches qualify;
\* when the disposition is not FALSE_POSITIVE or no match scores above 0.85
\* the rule produces none.
C23_FalsePositiveRuleFiresOnce ==
    application.fn = "_detect_contradictions" =>
        LET results == application.investigation
            found == application.result
            by_rule == {k \in DOMAIN found :
                           found[k].finding_b = "Disposition marked as FALSE_POSITIVE"}
            screened ==
                IF IsSet(results.individual_sanctions) THEN results.individual_sanctions
                ELSE results.entity_sanctions
            source ==
                IF IsSet(results.individual_sanctions) THEN "IndividualSanctions"
                ELSE "EntitySanctions"
            qualifying ==
                IF IsSet(screened)
                THEN {k \in DOMAIN screened.matches :
                         /\ "score" \in DOMAIN screened.matches[k]
                         /\ screened.matches[k].score.t = "float"
                         /\ screened.matches[k].score.v > 85}
                ELSE {}
            fires == /\ IsSet(screened)
                     /\ screened.disposition = "FALSE_POSITIVE"
                     /\ qualifying # {}
        IN  /\ fires => /\ Cardinality(by_rule) = 1
                        /\ \A k \in by_rule :
                              /\ found[k].severity = "HIGH"
                              /\ found[k].agent_a = source
                              /\ found[k].agent_b = source
            /\ ~fires => by_rule = {}

\* a FALSE_POSITIVE result with two matches above 0.85 gave one contradiction
C23_Witness ==
    /\ application.fn = "_detect_contradictions"
    /\ IsSet(application.investigation.entity_sanctions)
    /\ application.investigation.entity_sanctions.disposition = "FALSE_POSITIVE"
    /\ application.investigation.entity_sanctions.matches =
          <<[list_name |-> "OFAC", score |-> Float(90)],
            [list_name |-> "OFAC", score |-> Float(95)]>>
    /\ Cardinality({k \in DOMAIN application.result :
                       application.result[k].severity = "HIGH"}) = 1

\* ------------------------------------------------------------------------
\* Properties: confidence degradation
\* ------------------------------------------------------------------------
\* C24: for every non-empty Evidence Store, with strong the number of
\* VERIFIED plus SOURCED records and total the number of records, the grade
\* is A when 100*strong >= 70*total, else B when >= 50*total, else C when
\* >= 30*total, else D when >= 15*total, else F, and degraded is true
\* exactly when the grade is C, D or F.
C24_ConfidenceGradeSteps ==
    (application.fn = "_assess_confidence" /\ application.evidence_store # << >>) =>
        LET store == application.evidence_store
            alert == application.result
            total == Len(store)
            strong == Cardinality({k \in DOMAIN store :
                          /\ "evidence_level" \in DOMAIN store[k]
                          /\ store[k].evidence_level \in {"V", "S"}})
            grade == alert.overall_confidence_grade
        IN  /\ grade = "A" <=> 100 * strong >= 70 * total
            /\ grade = "B" <=> (100 * strong < 70 * total /\ 100 * strong >= 50 * total)
            /\ grade = "C" <=> (100 * strong < 50 * total /\ 100 * strong >= 30 * total)
            /\ grade = "D" <=> (100 * strong < 30 * total /\ 100 * strong >= 15 * total)
            /\ grade = "F" <=> 100 * strong < 15 * total
            /\ alert.degraded <=> grade \in {"C", "D", "F"}

\* the store of 7 VERIFIED and 3 SOURCED records was graded A, not degraded
C24_Witness ==
    /\ application.fn = "_assess_confidence"
    /\ application.evidence_store =
          Levelled("V", "EntityVerification", 7) \o Levelled("S", "IndividualSanctions", 3)
    /\ application.result.overall_confidence_grade = "A"
    /\ ~application.result.degraded

\* the four percentages of the alert (in tenths) sum to 100 within the
\* rounding of each to a tenth
SumsTo100(alert) ==
    LET sum == alert.verified_pct + alert.sourced_pct + alert.inferred_pct
               + alert.unknown_pct
    IN sum >= 1000 - 2 /\ sum <= 1000 + 2

\* every record is counted in exactly one class, one with a missing or
\* unrecognised class as unknown: each percentage is its class's share of
\* the store, to the nearest tenth
CountsEveryRecord(store, alert) ==
    LET total == Len(store)
        Of(levels) == Cardinality({k \in DOMAIN store :
                          /\ "evidence_level" \in DOMAIN store[k]
                          /\ store[k].evidence_level \in levels})
        Near(pct, count) == /\ 10 * pct * total >= 10000 * count - 5 * total
                            /\ 10 * pct * total <= 10000 * count + 5 * total
    IN /\ Near(alert.verified_pct, Of({"V"}))
       /\ Near(alert.sourced_pct, Of({"S"}))
       /\ Near(alert.inferred_pct, Of({"I"}))
       /\ Near(alert.unknown_pct, total - Of({"V", "S", "I"}))

\* C25: for every Evidence Store the alert is computed from, whatever its
\* size, the verified, sourced, inferred and unknown percentages of the
\* alert sum to 100 within rounding, every record being counted in exactly
\* one class, a record with a missing or unrecognised class as unknown.
C25_PercentagesSumTo100 ==
    application.fn = "_assess_confidence" =>
        /\ SumsTo100(application.result)
        /\ CountsEveryRecord(application.evidence_store, application.result)

\* C25 as amended: for every non-empty Evidence Store the four percentages
\* sum to 100 within rounding, every record being counted in exactly one
\* class (missing or unrecognised as unknown); for the empty store the alert
\* is the no-evidence alert, graded F and degraded, whose four percentages
\* are all 0.
C25_PercentagesSumTo100WhenNonEmpty ==
    application.fn = "_assess_confidence" =>
        IF application.evidence_store # << >>
        THEN /\ SumsTo100(application.result)
             /\ CountsEveryRecord(application.evidence_store, application.result)
        ELSE /\ application.result.verified_pct = 0
             /\ application.result.sourced_pct = 0
             /\ application.result.inferred_pct = 0
             /\ application.result.unknown_pct = 0
             /\ application.result.overall_confidence_grade = "F"
             /\ application.result.degraded

\* a store with a record of no class was assessed, and the rounded
\* percentages do not add up to 100 exactly
C25_Witness ==
    /\ application.fn = "_assess_confidence"
    /\ \E k \in DOMAIN application.evidence_store :
          "evidence_level" \notin DOMAIN application.evidence_store[k]
    /\ application.result.unknown_pct > 0
    /\ application.result.verified_pct + application.result.sourced_pct
          + application.result.inferred_pct + application.result.unknown_pct # 1000

\* ------------------------------------------------------------------------
\* Properties: batch analytics
\* ------------------------------------------------------------------------
Elements(seq) == {seq[k] : k \in DOMAIN seq}

\* the cases of the rolling window that list jurisdiction j
CasesSharing(log, j) ==
    {k \in DOMAIN log : /\ log[k].timestamp.age <= window_days
                        /\ j \in Elements(log[k].jurisdictions)}

LoggedJurisdictions(log) == UNION {Elements(log[k].jurisdictions) : k \in DOMAIN log}

\* the jurisdiction-cluster patterns of an analytics result that name j
\* what a call produced: the patterns it returned, none if it raised
Produced(result) == IF result.cls = "BatchAnalytics" THEN result.patterns ELSE << >>

\* the jurisdiction-cluster patterns a call produced that name j
ClustersNaming(result, j) ==
    {k \in DOMAIN Produced(result) :
        /\ Produced(result)[k].pattern_type = "jurisdiction_cluster"
        /\ Produced(result)[k].description
              = ToString(Produced(result)[k].count) \o " cases involve jurisdiction: " \o j}

\* C26: over the cases of the rolling window the batch analytics produces,
\* for every jurisdiction other than Canada / CA, one jurisdiction-cluster
\* pattern whose count is the number of cases sharing it exactly when at
\* least 3 cases of the window share it, and none otherwise; cases outside
\* the window are not counted (logs whose timestamps all parse).
C26_JurisdictionClusterAtThreeCases ==
    (/\ application.fn = "_compute_batch_analytics"
     /\ \A k \in DOMAIN application.log : IsIso(application.log[k].timestamp)) =>
        \A j \in LoggedJurisdictions(application.log) :
            LET sharing == CasesSharing(application.log, j)
                clusters == ClustersNaming(application.result, j)
            IN IF Upper(j) \notin {"CANADA", "CA"} /\ Cardinality(sharing) >= 3
               THEN /\ Cardinality(clusters) = 1
                    /\ \A k \in clusters :
                          application.result.patterns[k].count = Cardinality(sharing)
               ELSE clusters = {}

\* C29: a recorded case signature lists the industry of its client and
\* nothing else as an industry, and for logs written by
\* record_case_signature an industry-cluster pattern is produced only when
\* at least 3 cases of the window are in the same industry.
C29_IndustryClusterNeedsSharedIndustry ==
    /\ application.fn = "record_case_signature" =>
          \A k \in DOMAIN application.log :
              Elements(application.log[k].industries) \subseteq {application.clients[k].industry}
    /\ (application.fn = "_compute_batch_analytics" /\ application.clients # << >>) =>
          ((\E k \in DOMAIN application.result.patterns :
                application.result.patterns[k].pattern_type = "industry_cluster")
           => \E industry \in {application.clients[k].industry : k \in DOMAIN application.clients} :
                 Cardinality({k \in DOMAIN application.clients :
                                 application.clients[k].industry = industry}) >= 3)

\* C30: for every content of the case-signature log the batch analytics
\* returns a BatchAnalytics value and raises nothing, also when the mean risk
\* score of the previous window is 0 and that of the current window is positive.
C30_BatchAnalyticsAlwaysReturns ==
    application.fn = "_compute_batch_analytics" =>
        application.result.cls = "BatchAnalytics"

\* ------------------------------------------------------------------------
\* Properties: confirmed matches of cascade subjects
\* ------------------------------------------------------------------------
\* a confirmed match in the sanctions screening of a cascade subject
CascadeConfirmedMatchIn(results) ==
    \E owner \in DOMAIN results.ubo_screening :
       /\ "sanctions" \in DOMAIN results.ubo_screening[owner]
       /\ results.ubo_screening[owner]["sanctions"].disposition.v = "CONFIRMED_MATCH"

\* C27: a CONFIRMED_MATCH sanctions disposition of a cascade subject forces
\* the decision of finalize to DECLINE like one of the client: no run whose
\* cascade results hold a confirmed sanctions match is finalized with
\* APPROVE, CONDITIONAL or ESCALATE.
C27_FinalizeDeclinesCascadeConfirmedMatch ==
    (/\ Returned("finalize")
     /\ IsSet(output.synthesis)
     /\ CascadeConfirmedMatchIn(output.investigation_results))
    => output.final_decision = Decision("DECLINE")

\* ------------------------------------------------------------------------
\* Stage 4: the interactive review of a paused run
\* ------------------------------------------------------------------------
ReviewAction(action_type, officer_note) ==
    [action_type |-> action_type, officer_note |-> officer_note]

RECURSIVE Notes(_)
Notes(n) ==
    IF n = 0 THEN << >>
    ELSE Append(Notes(n - 1), ReviewAction("add_note", "note " \o ToString(n)))

\* the session of a review loop that took n "note" commands and then either
\* "finalize" or the end of input
ReviewedSession(client_id, n, finalized) ==
    [client_id |-> client_id,
     actions |-> Notes(n)
                 \o (IF finalized
                     THEN <<ReviewAction("finalize", "Review session finalized by officer")>>
                     ELSE << >>),
     finalized |-> finalized]

\* _run_interactive_review on the case a run has paused on: the session
\* starts empty and is saved after every note and on finalize, so nothing is
\* written when the loop ends before the first command
InteractiveReview ==
    /\ pc = "idle"
    /\ output.entry = "run"
    /\ ~output.raised
    /\ \E n \in 0..MaxNotes, finalized \in BOOLEAN :
          review_file' = IF n = 0 /\ ~finalized THEN review_file
                         ELSE <<ReviewedSession(plan.client_id, n, finalized)>>
    /\ UNCHANGED <<application, world, checkpoint_file, plan_file, evidence_file, reports,
                   pc, resume, checkpoint, evidence_store, completed_stage, investigation,
                   i, synthesis, calls, output, invocations>>

ReviewNext ==
    \/ \E resume_flag \in BOOLEAN : StartRun(resume_flag)
    \/ RunAgent
    \/ ScreenUbo
    \/ RunUtility
    \/ CompleteInvestigation
    \/ SkipInvestigation
    \/ SaveEvidenceStore
    \/ RunSynthesis
    \/ SkipSynthesis
    \/ PauseForReview
    \/ Finalize
    \/ Interrupt
    \/ InteractiveReview

ReviewSpec == ReloadInit /\ [][ReviewNext]_vars

\* ------------------------------------------------------------------------
\* Properties: the persisted review session
\* ------------------------------------------------------------------------
\* the persisted review session holds officer actions or is finalized
SessionInUse ==
    /\ review_file # << >>
    /\ review_file[1].actions # << >> \/ review_file[1].finalized

\* C28: no step of run changes a persisted review session that already
\* holds officer actions or is finalized: re-entering run for such a client
\* leaves review_session.json as it was.
C28_RunKeepsReviewSessionInUse ==
    [][(pc # "idle" /\ SessionInUse) => review_file' = review_file]_vars

====
